---- MODULE Spec2Model ----
(***************************************************************************)
(* Model of the intent-identifier repository: the three-stage pipeline of  *)
(* Working/intentAgent.js (processInput -> identifyIntent ->               *)
(* generateResponse) and the HTTP endpoints of Frontend/server.js that     *)
(* drive it.                                                               *)
(*                                                                         *)
(* Representation.  A JavaScript value is a tagged record (JNull, JStr,    *)
(* JNum, JObj, JArr, JUndef).  A JavaScript string is a sequence of        *)
(* lexemes: text typed by a user is lexed per character, text replied by   *)
(* the LLM per JSON token (brace, comma, colon, blank, newline, string     *)
(* literal, number literal, word).  A number is kept in hundredths         *)
(* (0.6 is 60), which is exact for every literal of the code and of the    *)
(* sample replies.                                                         *)
(***************************************************************************)
EXTENDS Integers, Sequences, FiniteSets, TLC

(***************************************************************************)
(* JavaScript values                                                       *)
(***************************************************************************)
JUndef == [t |-> "undef"]

JNull == [t |-> "null"]

JStr(s) == [t |-> "str", s |-> s]

JNum(n) == [t |-> "num", n |-> n]

JObj(m) == [t |-> "obj", m |-> m]

JArr(a) == [t |-> "arr", a |-> a]

EmptyMap == [k \in {} |-> JUndef]

\* obj.key of JavaScript: undefined when the key is absent
Get(obj, key) == IF key \in DOMAIN obj.m THEN obj.m[key] ELSE JUndef

\* truthiness, as used by the || defaults
Truthy(v) ==
  CASE v.t = "undef" -> FALSE
    [] v.t = "null" -> FALSE
    [] v.t = "str" -> v.s # <<>>
    [] v.t = "num" -> v.n # 0
    [] OTHER -> TRUE

\* a || b
OrElse(a, b) == IF Truthy(a) THEN a ELSE b

IsString(v) == v.t = "str"

(***************************************************************************)
(* Lexemes of an LLM reply                                                 *)
(***************************************************************************)
StringBody ==
  ( "\"intent\"" :> <<"intent">> ) @@
  ( "\"confidence\"" :> <<"confidence">> ) @@
  ( "\"entities\"" :> <<"entities">> ) @@
  ( "\"greeting\"" :> <<"greeting">> ) @@
  ( "\"question\"" :> <<"question">> ) @@
  ( "\"booking\"" :> <<"booking">> ) @@
  ( "\"person\"" :> <<"person">> ) @@
  ( "\"Jane\"" :> <<"Jane">> ) @@
  ( "\"user_goal\"" :> <<"user_goal">> ) @@
  ( "\"\"" :> <<>> )

NumberValue ==
  ( "0.9" :> 90 ) @@ ( "0.92" :> 92 ) @@ ( "0" :> 0 ) @@
  ( "1.5" :> 150 ) @@ ( "-0.5" :> -50 )

IsStringLit(x) == x \in DOMAIN StringBody

IsNumberLit(x) == x \in DOMAIN NumberValue

\* \s of the regexes
IsSpace(x) == x \in {" ", "\n", "\t", "\r"}

\* [\u0000-\u001F\u007F-\u009F]
IsControl(x) == x \in {"\n", "\t", "\r"}

(***************************************************************************)
(* Sequence helpers                                                        *)
(***************************************************************************)
RECURSIVE SkipSpace(_, _)
SkipSpace(s, i) ==
  IF i <= Len(s) /\ IsSpace(s[i]) THEN SkipSpace(s, i + 1) ELSE i

At(s, i) == IF i >= 1 /\ i <= Len(s) THEN s[i] ELSE "<eof>"

\* String.prototype.trim
RECURSIVE TrimLeft(_)
TrimLeft(s) ==
  IF s # <<>> /\ IsSpace(Head(s)) THEN TrimLeft(Tail(s)) ELSE s

RECURSIVE TrimRight(_)
TrimRight(s) ==
  IF s # <<>> /\ IsSpace(s[Len(s)]) THEN TrimRight(SubSeq(s, 1, Len(s) - 1)) ELSE s

Trim(s) == TrimRight(TrimLeft(s))

(***************************************************************************)
(* JSON.parse on a lexeme sequence                                         *)
(***************************************************************************)
ParseFail == [ok |-> FALSE, v |-> JUndef, i |-> 0]

RECURSIVE ParseValue(_, _)
RECURSIVE ParseMembers(_, _, _)
RECURSIVE ParseElements(_, _, _)

\* members of an object after "{" or ","; m holds the members read so far
ParseMembers(s, i, m) ==
  LET k == SkipSpace(s, i) IN
  IF ~IsStringLit(At(s, k)) THEN ParseFail
  ELSE LET c == SkipSpace(s, k + 1) IN
       IF At(s, c) # ":" THEN ParseFail
       ELSE LET r == ParseValue(s, c + 1) IN
            IF ~r.ok THEN ParseFail
            ELSE LET key == StringBody[s[k]]
                     m2 == (key :> r.v) @@ m
                     e == SkipSpace(s, r.i) IN
                 CASE At(s, e) = "," -> ParseMembers(s, e + 1, m2)
                   [] At(s, e) = "}" -> [ok |-> TRUE, v |-> JObj(m2), i |-> e + 1]
                   [] OTHER -> ParseFail

\* elements of an array after "[" or ","; a holds the elements read so far
ParseElements(s, i, a) ==
  LET r == ParseValue(s, i) IN
  IF ~r.ok THEN ParseFail
  ELSE LET a2 == Append(a, r.v)
           e == SkipSpace(s, r.i) IN
       CASE At(s, e) = "," -> ParseElements(s, e + 1, a2)
         [] At(s, e) = "]" -> [ok |-> TRUE, v |-> JArr(a2), i |-> e + 1]
         [] OTHER -> ParseFail

ParseValue(s, i) ==
  LET k == SkipSpace(s, i)
      x == At(s, k) IN
  CASE x = "{" ->
         LET n == SkipSpace(s, k + 1) IN
         IF At(s, n) = "}" THEN [ok |-> TRUE, v |-> JObj(EmptyMap), i |-> n + 1]
         ELSE ParseMembers(s, k + 1, EmptyMap)
    [] x = "[" ->
         LET n == SkipSpace(s, k + 1) IN
         IF At(s, n) = "]" THEN [ok |-> TRUE, v |-> JArr(<<>>), i |-> n + 1]
         ELSE ParseElements(s, k + 1, <<>>)
    [] IsStringLit(x) -> [ok |-> TRUE, v |-> JStr(StringBody[x]), i |-> k + 1]
    [] IsNumberLit(x) -> [ok |-> TRUE, v |-> JNum(NumberValue[x]), i |-> k + 1]
    [] x = "null" -> [ok |-> TRUE, v |-> JNull, i |-> k + 1]
    [] OTHER -> ParseFail

\* JSON.parse: the whole text must be one value; ok = FALSE is the SyntaxError
JSONParse(s) ==
  LET r == ParseValue(s, 1) IN
  IF r.ok /\ SkipSpace(s, r.i) = Len(s) + 1 THEN r ELSE ParseFail


(***************************************************************************)
(* The regexes of identifyIntent and generateResponse                      *)
(***************************************************************************)
Positions(s, x) == {i \in 1..Len(s) : s[i] = x}

Min(S) == CHOOSE i \in S : \A j \in S : i <= j

Max(S) == CHOOSE i \in S : \A j \in S : i >= j

NoMatch == [found |-> FALSE, text |-> <<>>]

\* content.match(/\{[\s\S]*?\}/): from the first "{" to the first "}" after it
FirstSpan(s) ==
  LET opens == Positions(s, "{")
      closes == Positions(s, "}") IN
  IF opens = {} \/ {j \in closes : j > Min(opens)} = {} THEN NoMatch
  ELSE [found |-> TRUE,
        text |-> SubSeq(s, Min(opens), Min({j \in closes : j > Min(opens)}))]

\* content.match(/\{[\s\S]*\}/): from the first "{" to the last "}"
GreedySpan(s) ==
  LET opens == Positions(s, "{")
      closes == Positions(s, "}") IN
  IF opens = {} \/ {j \in closes : j > Min(opens)} = {} THEN NoMatch
  ELSE [found |-> TRUE, text |-> SubSeq(s, Min(opens), Max(closes))]

\* .replace(/[\u0000-\u001F\u007F-\u009F]/g, '')
RemoveControl(s) == SelectSeq(s, LAMBDA x : ~IsControl(x))

\* .replace(/,(\s*[}\]])/g, '$1'): drop a comma that only blanks separate
\* from a closing brace or bracket
RECURSIVE RemoveTrailingCommas(_)
RemoveTrailingCommas(s) ==
  IF s = <<>> THEN <<>>
  ELSE IF Head(s) = "," /\ At(s, SkipSpace(s, 2)) \in {"}", "]"}
       THEN RemoveTrailingCommas(Tail(s))
       ELSE <<Head(s)>> \o RemoveTrailingCommas(Tail(s))

\* the clean-up chain of identifyIntent; after RemoveControl no "\n" or "\r"
\* is left for the two later replaces
CleanUp(s) == Trim(RemoveTrailingCommas(RemoveControl(s)))

\* the clean-up chain of generateResponse
CleanUpReasoning(s) == Trim(RemoveTrailingCommas(RemoveControl(s)))

KIntent == <<"intent">>

KConfidence == <<"confidence">>

KEntities == <<"entities">>

\* positions of the lexeme that follows  "key" \s* : \s*
KeyValuePositions(s, key) ==
  {v \in 1..Len(s) : \E i \in 1..Len(s) :
      /\ IsStringLit(s[i]) /\ StringBody[s[i]] = key
      /\ At(s, SkipSpace(s, i + 1)) = ":"
      /\ v = SkipSpace(s, SkipSpace(s, i + 1) + 1)}

\* content.match(/"intent"\s*:\s*"([^"]+)"/): the captured text, if any
IntentPattern(s) ==
  LET ps == {v \in KeyValuePositions(s, KIntent) :
               IsStringLit(s[v]) /\ StringBody[s[v]] # <<>>} IN
  IF ps = {} THEN NoMatch ELSE [found |-> TRUE, text |-> StringBody[s[Min(ps)]]]

\* [\d.]+ matches a number literal from its first character on, so not a
\* negative one
StartsWithDigit(x) == IsNumberLit(x) /\ NumberValue[x] >= 0

\* content.match(/"confidence"\s*:\s*([\d.]+)/) and parseFloat of the capture
ConfidencePattern(s) ==
  LET ps == {v \in KeyValuePositions(s, KConfidence) : StartsWithDigit(s[v])} IN
  IF ps = {} THEN [found |-> FALSE, n |-> 0]
  ELSE [found |-> TRUE, n |-> NumberValue[s[Min(ps)]]]

(***************************************************************************)
(* classifyIntentFallback, on the characters of the user input             *)
(***************************************************************************)
Upper == <<"A","B","C","D","E","F","G","H","I","J","K","L","M",
           "N","O","P","Q","R","S","T","U","V","W","X","Y","Z">>

Lower == <<"a","b","c","d","e","f","g","h","i","j","k","l","m",
           "n","o","p","q","r","s","t","u","v","w","x","y","z">>

LowerChar(c) ==
  IF \E i \in 1..26 : Upper[i] = c
  THEN Lower[CHOOSE i \in 1..26 : Upper[i] = c] ELSE c

\* String.prototype.toLowerCase
ToLowerCase(s) == [i \in 1..Len(s) |-> LowerChar(s[i])]

StartsWith(s, w) == Len(s) >= Len(w) /\ SubSeq(s, 1, Len(w)) = w

\* an unanchored regex alternative, or String.prototype.includes
Includes(s, w) ==
  \E i \in 1..(Len(s) - Len(w) + 1) : SubSeq(s, i, i + Len(w) - 1) = w

GreetingPrefixes ==
  { <<"h", "i">>,
    <<"h", "e", "l", "l", "o">>,
    <<"h", "e", "y">>,
    <<"g", "r", "e", "e", "t", "i", "n", "g", "s">>,
    <<"g", "o", "o", "d", " ", "m", "o", "r", "n", "i", "n", "g">>,
    <<"g", "o", "o", "d", " ", "a", "f", "t", "e", "r", "n", "o", "o", "n">> }

QuestionWords ==
  { <<"w", "h", "a", "t">>,
    <<"w", "h", "e", "n">>,
    <<"w", "h", "e", "r", "e">>,
    <<"w", "h", "y">>,
    <<"h", "o", "w">>,
    <<"w", "h", "o">>,
    <<"w", "h", "i", "c", "h">> }

CommandWords ==
  { <<"p", "l", "e", "a", "s", "e">>,
    <<"c", "o", "u", "l", "d", " ", "y", "o", "u">>,
    <<"c", "a", "n", " ", "y", "o", "u">>,
    <<"w", "o", "u", "l", "d", " ", "y", "o", "u">>,
    <<"s", "c", "h", "e", "d", "u", "l", "e">>,
    <<"b", "o", "o", "k">>,
    <<"c", "r", "e", "a", "t", "e">>,
    <<"a", "d", "d">> }

GoodbyeWords ==
  { <<"t", "h", "a", "n", "k", "s">>,
    <<"t", "h", "a", "n", "k", " ", "y", "o", "u">>,
    <<"a", "p", "p", "r", "e", "c", "i", "a", "t", "e">>,
    <<"g", "r", "a", "t", "e", "f", "u", "l">>,
    <<"b", "y", "e">>,
    <<"g", "o", "o", "d", "b", "y", "e">>,
    <<"s", "e", "e", " ", "y", "o", "u">> }

ClarificationWords ==
  { <<"h", "e", "l", "p">>,
    <<"a", "s", "s", "i", "s", "t">>,
    <<"s", "u", "p", "p", "o", "r", "t">>,
    <<"c", "l", "a", "r", "i", "f", "y">>,
    <<"e", "x", "p", "l", "a", "i", "n">> }

InformationWords ==
  { <<"t", "e", "l", "l", " ", "m", "e">>,
    <<"w", "h", "a", "t", " ", "i", "s">>,
    <<"w", "h", "a", "t", " ", "a", "r", "e">>,
    <<"s", "h", "o", "w", " ", "m", "e">>,
    <<"g", "i", "v", "e", " ", "m", "e">> }

\* the same tests with clarification tried before command
classifyIntentFallbackReordered(input) ==
  LET lowerInput == ToLowerCase(input) IN
  IF \E w \in GreetingPrefixes : StartsWith(lowerInput, w) THEN <<"greeting">>
  ELSE IF (\E w \in QuestionWords : Includes(lowerInput, w))
            /\ Includes(lowerInput, <<"?">>) THEN <<"question">>
  ELSE IF \E w \in ClarificationWords : Includes(lowerInput, w) THEN <<"clarification">>
  ELSE IF \E w \in CommandWords : Includes(lowerInput, w) THEN <<"command">>
  ELSE IF \E w \in GoodbyeWords : Includes(lowerInput, w) THEN <<"goodbye">>
  ELSE IF \E w \in InformationWords : Includes(lowerInput, w) THEN <<"information_request">>
  ELSE <<"unknown">>

classifyIntentFallback(input) ==
  LET lowerInput == ToLowerCase(input) IN
  IF \E w \in GreetingPrefixes : StartsWith(lowerInput, w) THEN <<"greeting">>
  ELSE IF (\E w \in QuestionWords : Includes(lowerInput, w))
            /\ Includes(lowerInput, <<"?">>) THEN <<"question">>
  ELSE IF \E w \in CommandWords : Includes(lowerInput, w) THEN <<"command">>
  ELSE IF \E w \in GoodbyeWords : Includes(lowerInput, w) THEN <<"goodbye">>
  ELSE IF \E w \in ClarificationWords : Includes(lowerInput, w) THEN <<"clarification">>
  ELSE IF \E w \in InformationWords : Includes(lowerInput, w) THEN <<"information_request">>
  ELSE <<"unknown">>

(***************************************************************************)
(* AgentState, messages and prompts                                        *)
(***************************************************************************)
Variants == {"reasoning", "plain"}

\* new AgentState(); the reasoning field exists in Working/intentAgent.js only
NewAgentState(v) ==
  [userInput |-> JStr(<<>>),
   messages |-> <<>>,
   identifiedIntent |-> JNull,
   confidence |-> JNum(0),
   entities |-> JObj(EmptyMap),
   response |-> JStr(<<>>),
   reasoning |-> IF v = "reasoning" THEN JStr(<<>>) ELSE JUndef,
   error |-> JNull]

systemPrompt == JStr(<<"You are a helpful AI assistant designed to identify and classify user intents.">>)

SystemMessage(c) == [role |-> "system", content |-> c]

HumanMessage(c) == [role |-> "human", content |-> c]

\* ${v} of a template literal; a number prints its hundredths
RECURSIVE Interp(_)
Interp(v) ==
  CASE v.t = "str" -> v.s
    [] v.t = "num" -> <<ToString(v.n)>>
    [] v.t = "null" -> <<"null">>
    [] v.t = "undef" -> <<"undefined">>
    [] v.t = "arr" ->
         IF v.a = <<>> THEN <<>>
         ELSE IF Len(v.a) = 1 THEN Interp(v.a[1])
         ELSE Interp(v.a[1]) \o <<",">> \o Interp(JArr(Tail(v.a)))
    [] OTHER -> <<"[object Object]">>

intentPrompt(s) ==
  JStr(<<"Analyze the following user message and identify the primary intent. User message: ">>
       \o Interp(s.userInput)
       \o <<"IMPORTANT: Respond ONLY with valid JSON.">>)

reasoningPrompt(s) ==
  JStr(<<"Analyze this intent classification decision: User Message: ">>
       \o Interp(s.userInput)
       \o <<"Identified Intent: ">> \o Interp(s.identifiedIntent)
       \o <<"Confidence Score: ">> \o Interp(s.confidence))

responsePrompt(v, s) ==
  IF v = "reasoning"
  THEN JStr(<<"User message: ">> \o Interp(s.userInput)
            \o <<"Identified intent: ">> \o Interp(s.identifiedIntent)
            \o <<"IMPORTANT: Respond directly to the user's message.">>)
  ELSE JStr(<<"Based on the identified intent ">> \o Interp(s.identifiedIntent)
            \o <<" with confidence ">> \o Interp(s.confidence)
            \o <<"generate an appropriate response to the user's message: ">>
            \o Interp(s.userInput))

Apology == JStr(<<"I apologize, but I encountered an error processing your request.">>)

\* `${prefix}${error.message}`
ErrorText(prefix, msg) == JStr(<<prefix>> \o msg)

(***************************************************************************)
(* The nodes of the graph.  A node body yields [ok, s, msg]: ok = FALSE is *)
(* an exception with message msg thrown at state s.  An outcome o of an    *)
(* external call is [throws, content, msg].                                *)
(***************************************************************************)
Returned(s) == [ok |-> TRUE, s |-> s, msg |-> <<>>]

Thrown(s, msg) == [ok |-> FALSE, s |-> s, msg |-> msg]

\* the two messages in the other order
processInputBodyHumanFirst(s, o) ==
  IF o.throws THEN Thrown(s, o.msg)
  ELSE Returned([s EXCEPT !.messages =
                   <<HumanMessage(s.userInput), SystemMessage(systemPrompt)>>])

\* try { ... } of processInput; o is what constructing the two messages did
processInputBody(s, o) ==
  IF o.throws THEN Thrown(s, o.msg)
  ELSE Returned([s EXCEPT !.messages =
                   <<SystemMessage(systemPrompt), HumanMessage(s.userInput)>>])

processInputCatch(s, msg) ==
  [s EXCEPT !.error = ErrorText("Error processing input: ", msg)]

processInput(s, o) ==
  LET b == processInputBody(s, o) IN
  IF b.ok THEN b ELSE Returned(processInputCatch(b.s, b.msg))

\* the messages identifyIntent sends to the model
identifyIntentMessages(s) == s.messages \o <<HumanMessage(intentPrompt(s))>>

\* the defaults taken together: all three as soon as one key is missing
adoptParsedAllOrNothing(s, intentData) ==
  IF Truthy(Get(intentData, KIntent)) /\ Truthy(Get(intentData, KConfidence))
       /\ Truthy(Get(intentData, KEntities))
  THEN [s EXCEPT !.identifiedIntent = Get(intentData, KIntent),
                 !.confidence = Get(intentData, KConfidence),
                 !.entities = Get(intentData, KEntities)]
  ELSE [s EXCEPT !.identifiedIntent = JStr(<<"unknown">>),
                 !.confidence = JNum(50),
                 !.entities = JObj(EmptyMap)]

\* JSON.parse succeeded: the three || defaults
adoptParsed(s, intentData) ==
  [s EXCEPT !.identifiedIntent = OrElse(Get(intentData, KIntent), JStr(<<"unknown">>)),
            !.confidence = OrElse(Get(intentData, KConfidence), JNum(50)),
            !.entities = OrElse(Get(intentData, KEntities), JObj(EmptyMap))]

\* the confidence pattern consulted only when the intent pattern matched
adoptPatternsCoupled(s, content) ==
  LET intentMatch == IntentPattern(content)
      confidenceMatch == ConfidencePattern(content) IN
  [s EXCEPT !.identifiedIntent =
              IF intentMatch.found THEN JStr(intentMatch.text) ELSE JStr(<<"unknown">>),
            !.confidence =
              IF intentMatch.found /\ confidenceMatch.found
              THEN JNum(confidenceMatch.n) ELSE JNum(50),
            !.entities = JObj(EmptyMap)]

\* catch (parseError): the two patterns, applied to the whole reply
adoptPatterns(s, content) ==
  LET intentMatch == IntentPattern(content)
      confidenceMatch == ConfidencePattern(content) IN
  [s EXCEPT !.identifiedIntent =
              IF intentMatch.found THEN JStr(intentMatch.text) ELSE JStr(<<"unknown">>),
            !.confidence =
              IF confidenceMatch.found THEN JNum(confidenceMatch.n) ELSE JNum(50),
            !.entities = JObj(EmptyMap)]

\* the static classifier with the default confidence of the other branches
adoptFallbackHalf(s) ==
  IF ~IsString(s.userInput)
  THEN Thrown(s, <<"input.toLowerCase is not a function">>)
  ELSE Returned([s EXCEPT !.identifiedIntent = JStr(classifyIntentFallback(s.userInput.s)),
                          !.confidence = JNum(50),
                          !.entities = JObj(EmptyMap)])

\* no {...} span: the static classifier; toLowerCase exists on strings only
adoptFallback(s) ==
  IF ~IsString(s.userInput)
  THEN Thrown(s, <<"input.toLowerCase is not a function">>)
  ELSE Returned([s EXCEPT !.identifiedIntent = JStr(classifyIntentFallback(s.userInput.s)),
                          !.confidence = JNum(60),
                          !.entities = JObj(EmptyMap)])

\* try { ... } of identifyIntent from the await on; o is the outcome of
\* this.model.invoke
identifyIntentBody(s, o) ==
  IF o.throws THEN Thrown(s, o.msg)
  ELSE IF ~IsString(o.content) THEN Thrown(s, <<"content.match is not a function">>)
  ELSE LET content == o.content.s
           jsonMatch == FirstSpan(content) IN
       IF jsonMatch.found
       THEN LET parsed == JSONParse(CleanUp(jsonMatch.text)) IN
            IF parsed.ok THEN Returned(adoptParsed(s, parsed.v))
            ELSE Returned(adoptPatterns(s, content))
       ELSE adoptFallback(s)

\* a catch that records the error and leaves intent and confidence alone
identifyIntentCatchErrorOnly(s, msg) ==
  [s EXCEPT !.error = ErrorText("Error identifying intent: ", msg)]

identifyIntentCatch(s, msg) ==
  [s EXCEPT !.error = ErrorText("Error identifying intent: ", msg),
            !.identifiedIntent = JStr(<<"unknown">>),
            !.confidence = JNum(0)]

\* identifyIntent without its try/catch
identifyIntentUncaught(s, o) == identifyIntentBody(s, o)

identifyIntent(s, o) ==
  LET b == identifyIntentBody(s, o) IN
  IF b.ok THEN b ELSE Returned(identifyIntentCatch(b.s, b.msg))

\* the object literals generateResponse stores in state.reasoning
ReasoningObject(keyPhrases, userGoal, why, factors, approach, expectation) ==
  JObj((<<"message_analysis">> :>
          JObj((<<"key_phrases">> :> JArr(keyPhrases)) @@ (<<"user_goal">> :> userGoal))) @@
       (<<"intent_justification">> :>
          JObj((<<"why_this_intent">> :> why) @@ (<<"confidence_factors">> :> JArr(factors)))) @@
       (<<"response_strategy">> :>
          JObj((<<"approach">> :> approach) @@ (<<"user_expectation">> :> expectation))))

\* the inner try/catch of generateResponse: never throws
parseReasoning(s, reasoningContent) ==
  LET simple ==
        ReasoningObject(<<>>, s.userInput,
                        JStr(<<"Classified as ">> \o Interp(s.identifiedIntent)),
                        <<JStr(<<"Confidence: ">> \o Interp(s.confidence))>>,
                        JStr(<<"Direct response">>), JStr(<<"Helpful answer">>)) IN
  IF ~IsString(reasoningContent) THEN simple
  ELSE LET content == Trim(reasoningContent.s)
           jsonMatch == GreedySpan(content) IN
       IF jsonMatch.found
       THEN LET parsed == JSONParse(CleanUpReasoning(jsonMatch.text)) IN
            IF parsed.ok THEN parsed.v ELSE simple
       ELSE ReasoningObject(<<>>, JStr(<<"Could not parse reasoning">>),
                            JStr(content), <<>>,
                            JStr(<<"Direct response">>), JStr(<<"Helpful answer">>))

\* the messages generateResponse sends first: the reasoning request in
\* Working/intentAgent.js, the reply request in the variant without reasoning
generateResponseMessages(v, s) ==
  IF v = "reasoning" THEN s.messages \o <<HumanMessage(reasoningPrompt(s))>>
  ELSE s.messages \o <<HumanMessage(responsePrompt(v, s))>>

\* the reasoning handled without the inner try/catch: text that is not
\* JSON inside its braces goes to the catch of generateResponse
reasoningBodyNoInnerCatch(s, o) ==
  IF o.throws THEN Thrown(s, o.msg)
  ELSE IF ~IsString(o.content) THEN Thrown(s, <<"reasoningResponse.content.trim is not a function">>)
  ELSE IF GreedySpan(Trim(o.content.s)).found
            /\ ~JSONParse(CleanUpReasoning(GreedySpan(Trim(o.content.s)).text)).ok
       THEN Thrown(s, <<"Unexpected token">>)
       ELSE Returned([s EXCEPT !.reasoning = parseReasoning(s, o.content)])

\* try { ... } of generateResponse between its two awaits (reasoning variant)
reasoningBody(s, o) ==
  IF o.throws THEN Thrown(s, o.msg)
  ELSE Returned([s EXCEPT !.reasoning = parseReasoning(s, o.content)])

\* the messages of the second call of generateResponse (reasoning variant)
responseMessages(v, s) == s.messages \o <<HumanMessage(responsePrompt(v, s))>>

\* try { ... } of generateResponse after the reply await
replyBody(v, s, o) ==
  IF o.throws THEN Thrown(s, o.msg)
  ELSE IF v = "plain" THEN Returned([s EXCEPT !.response = o.content])
  ELSE IF ~IsString(o.content)
       THEN Thrown(s, <<"response.content.trim is not a function">>)
       ELSE Returned([s EXCEPT !.response = JStr(Trim(o.content.s))])

\* a catch that keeps the error text of an earlier stage
generateResponseCatchKeepsFirst(v, s, msg) ==
  [s EXCEPT !.error = IF @ # JNull THEN @
                      ELSE ErrorText("Error generating response: ", msg),
            !.response = Apology,
            !.reasoning =
               IF v = "reasoning"
               THEN ReasoningObject(<<>>, JStr(<<"Error occurred">>), JStr(msg), <<>>,
                                    JStr(<<"Error recovery">>), JStr(<<"Error message">>))
               ELSE @]

\* a catch that records the error and substitutes no response
generateResponseCatchNoApology(v, s, msg) ==
  [s EXCEPT !.error = ErrorText("Error generating response: ", msg)]

\* a catch that also degrades the classification to the default
generateResponseCatchReset(v, s, msg) ==
  [s EXCEPT !.error = ErrorText("Error generating response: ", msg),
            !.response = Apology,
            !.identifiedIntent = JStr(<<"unknown">>),
            !.confidence = JNum(0),
            !.reasoning =
               IF v = "reasoning"
               THEN ReasoningObject(<<>>, JStr(<<"Error occurred">>), JStr(msg), <<>>,
                                    JStr(<<"Error recovery">>), JStr(<<"Error message">>))
               ELSE @]

generateResponseCatch(v, s, msg) ==
  [s EXCEPT !.error = ErrorText("Error generating response: ", msg),
            !.response = Apology,
            !.reasoning =
               IF v = "reasoning"
               THEN ReasoningObject(<<>>, JStr(<<"Error occurred">>), JStr(msg), <<>>,
                                    JStr(<<"Error recovery">>), JStr(<<"Error message">>))
               ELSE @]

\* a generateResponse whose reasoning call has a catch of its own: when the
\* call throws, the simple reasoning is stored and the reply is still asked
generateResponseReasoningGoesOn(v, s, o) ==
  LET b == reasoningBody(s, o) IN
  IF b.ok THEN [ok |-> TRUE, s |-> b.s, msg |-> <<>>, awaiting |-> TRUE]
  ELSE [ok |-> TRUE, s |-> [b.s EXCEPT !.reasoning = parseReasoning(b.s, JUndef)],
        msg |-> <<>>, awaiting |-> TRUE]

\* generateResponse up to the point where it awaits the reply call
\* (awaiting), or to its return when the reasoning call threw
generateResponseReasoning(v, s, o) ==
  LET b == reasoningBody(s, o) IN
  IF b.ok THEN [ok |-> TRUE, s |-> b.s, msg |-> <<>>, awaiting |-> TRUE]
  ELSE [ok |-> TRUE, s |-> generateResponseCatch(v, b.s, b.msg), msg |-> <<>>,
        awaiting |-> FALSE]

\* generateResponse from the reply await to its return
generateResponseReply(v, s, o) ==
  LET b == replyBody(v, s, o) IN
  IF b.ok THEN b ELSE Returned(generateResponseCatch(v, b.s, b.msg))

\* the object processMessage returns
ResultOf(v, result) ==
  IF v = "reasoning"
  THEN [intent |-> result.identifiedIntent, confidence |-> result.confidence,
        entities |-> result.entities, response |-> result.response,
        reasoning |-> result.reasoning, error |-> result.error]
  ELSE [intent |-> result.identifiedIntent, confidence |-> result.confidence,
        entities |-> result.entities, response |-> result.response,
        error |-> result.error]

(***************************************************************************)
(* The chat page (unnamed/part_002).  The page keeps a state object, a few *)
(* elements and the fetches it has issued.  Every handler is a function of *)
(* the page: it runs to its next await in one step                         *)
(***************************************************************************)
MaxSends == 3   \* messages the user gets sent in one run

\* what the input box may hold: nothing, blanks, a message
ChatTexts == {<<>>, <<" ">>, <<"h", "i">>}

\* the page once initialize() has set up its listeners and awaits the
\* health check.  lastExchange and sinceClear are not fields of the page:
\* they record how the last settled fetch ended and whether Clear Chat was
\* the last thing the user did to the conversation
ChatLoaded ==
  [messageCount |-> 0, isProcessing |-> FALSE, lastIntent |-> "null",
   messageInput |-> <<>>, sendBtnDisabled |-> FALSE,
   chatMessages |-> <<"system">>, intentDisplay |-> "placeholder",
   intentSummary |-> FALSE, statusDot |-> "checking",
   health |-> "awaiting", sends |-> <<>>,
   lastExchange |-> "none", sinceClear |-> FALSE]

updateStatus(c, status) == [c EXCEPT !.statusDot = status]

disableSendButton(c, disabled) == [c EXCEPT !.sendBtnDisabled = disabled]

addMessageToChat(c, sender) == [c EXCEPT !.chatMessages = Append(@, sender)]

addErrorMessage(c) == [c EXCEPT !.chatMessages = Append(@, "error")]

\* how a fetch may end: a 200 with a full report, one with an empty
\* response text, one without entities; another status; a network failure
FetchOutcomes == {"ok", "okNoResponse", "okNoEntities", "notOk", "rejected"}

ResponseOk(o) == o \in {"ok", "okNoResponse", "okNoEntities"}

\* fetch(config.healthEndpoint) has settled
checkConnectionSettled(c, o) ==
  LET shown == IF ResponseOk(o) THEN updateStatus(c, "connected")
               ELSE addErrorMessage(updateStatus(c, "disconnected")) IN
  [shown EXCEPT !.health = "settled",
                !.lastExchange = IF ResponseOk(o) THEN "succeeded" ELSE "failed"]

\* handleSendMessage up to its await: the guard, the bookkeeping, the fetch
handleSendMessageUnguarded(c) ==
  LET message == Trim(c.messageInput) IN
  IF message = <<>> THEN c
  ELSE [disableSendButton(addMessageToChat(c, "user"), TRUE) EXCEPT
          !.isProcessing = TRUE, !.messageCount = @ + 1,
          !.messageInput = <<>>, !.sends = Append(@, "awaiting"),
          !.sinceClear = FALSE]

handleSendMessage(c) ==
  LET message == Trim(c.messageInput) IN
  IF message = <<>> \/ c.isProcessing THEN c
  ELSE [disableSendButton(addMessageToChat(c, "user"), TRUE) EXCEPT
          !.isProcessing = TRUE, !.messageCount = @ + 1,
          !.messageInput = <<>>, !.sends = Append(@, "awaiting"),
          !.sinceClear = FALSE]

\* a click reaches the handler only when the button is enabled
clickSend(c) == IF c.sendBtnDisabled THEN c ELSE handleSendMessage(c)

\* processMessageWithIntent after its fetch: the data, or the catch that
\* marks the backend as failing and throws again
processMessageWithIntent(c, o) ==
  IF ResponseOk(o) THEN [ok |-> TRUE, c |-> c]
  ELSE [ok |-> FALSE, c |-> updateStatus(c, "disconnected")]

\* displayIntent: the panel, the summary, then state.lastIntent;
\* Object.keys throws on a report without entities
displayIntent(c, o) ==
  LET panel == [c EXCEPT !.intentDisplay = "json", !.intentSummary = TRUE] IN
  IF o = "okNoEntities" THEN [ok |-> FALSE, c |-> panel]
  ELSE [ok |-> TRUE, c |-> [panel EXCEPT !.lastIntent = o]]

displayError(c) == [c EXCEPT !.intentDisplay = "error"]

\* the try block of handleSendMessage after the await
handleSendMessageTry(c, o) ==
  LET got == processMessageWithIntent(c, o) IN
  IF ~got.ok THEN got
  ELSE LET shown == displayIntent(got.c, o) IN
       IF ~shown.ok THEN shown
       ELSE [ok |-> TRUE,
             c |-> IF o = "ok" THEN addMessageToChat(shown.c, "bot")
                   ELSE shown.c]

handleSendMessageCatch(tried) ==
  IF tried.ok THEN tried.c ELSE displayError(addErrorMessage(tried.c))

\* the same handler with the reset at the end of the try block
handleSendMessageNoFinally(c, i, o) ==
  LET tried == handleSendMessageTry(c, o)
      caught == handleSendMessageCatch(tried)
      reset == IF tried.ok
               THEN [disableSendButton(caught, FALSE) EXCEPT !.isProcessing = FALSE]
               ELSE caught IN
  [reset EXCEPT !.sends[i] = "settled",
                !.lastExchange = IF ResponseOk(o) THEN "succeeded" ELSE "failed"]

\* handleSendMessage from its await on: try, catch, finally
handleSendMessageSettled(c, i, o) ==
  LET caught == handleSendMessageCatch(handleSendMessageTry(c, o)) IN
  [disableSendButton(caught, FALSE) EXCEPT
     !.isProcessing = FALSE, !.sends[i] = "settled",
     !.lastExchange = IF ResponseOk(o) THEN "succeeded" ELSE "failed"]

clearChat(c) ==
  [c EXCEPT !.chatMessages = SelectSeq(@, LAMBDA m : m = "system"),
            !.intentDisplay = "placeholder", !.intentSummary = FALSE,
            !.messageCount = 0, !.lastIntent = "null", !.sinceClear = TRUE]

(***************************************************************************)
(* The Soul Buddy animator (Working/soul-buddy-animator.js).  The object   *)
(* is a record of its fields; each timeout field holds the name of the     *)
(* callback it will run, or "null".  Every callback clears its own field   *)
(* before anything else, so a field never keeps the id of a timer that has *)
(* fired.  Delays are left out: the timers fire in any order               *)
(***************************************************************************)
maxIdleLoops == 5

WaveFrames == 3       \* frames of the wave model, which the code does not fix
ThinkingFrames == 6   \* frames of the thinking model, more than four
MaxLoops == 6         \* where sleepingLoopCount and thinkingLoopCount stop counting
MaxIdleFrames == 16   \* where the count of idle frames shown stops

\* frames.length after extractFrames, by model
FrameCount(modelName) ==
  IF modelName = "wave" THEN WaveFrames
  ELSE IF modelName = "idle" THEN 3
  ELSE IF modelName = "sleeping" THEN 4
  ELSE IF modelName = "heart" THEN 6
  ELSE ThinkingFrames

\* the fields the constructor sets.  since, stopped and idleFrames are not
\* fields of the object: since tells whether the user has clicked, pressed
\* or stopped since the load ("load"), or a heart animation has completed
\* after the last such event ("heart"); stopped tells that stopAnimation
\* was the last such event; idleFrames counts the frames of the idle model
\* shown since the last such event or since idle was last entered from
\* wave, from sleeping or from heart
AnimatorConstructed ==
  [animationState |-> "wave", idleLoopCount |-> 0, sleepingLoopCount |-> 0,
   sendButtonPressed |-> FALSE, currentModelName |-> "null",
   currentFrame |-> 0, animationRunning |-> FALSE, animationTimeout |-> "null",
   heartAnimationPlaying |-> FALSE, heartAnimationTimeout |-> "null",
   thinkingAnimationPlaying |-> FALSE, thinkingAnimationTimeout |-> "null",
   thinkingLoopCount |-> 0, transitionToSleepingAfterIdle |-> FALSE,
   visibleFrame |-> -1, since |-> "load", stopped |-> FALSE, idleFrames |-> 0]

\* extractFrames ends with hideAllFrames
extractFrames(a, modelName) ==
  [a EXCEPT !.currentModelName = modelName, !.visibleFrame = -1]

showFrame(a, frameIndex) ==
  IF frameIndex >= 0 /\ frameIndex < FrameCount(a.currentModelName)
  THEN [a EXCEPT !.visibleFrame = frameIndex,
                 !.idleFrames = IF a.currentModelName = "idle"
                                THEN Min({@ + 1, MaxIdleFrames}) ELSE @]
  ELSE [a EXCEPT !.visibleFrame = -1]

playNextFrame(a) ==
  LET cleared == [a EXCEPT !.animationTimeout = "null"] IN
  IF ~cleared.animationRunning THEN cleared
  ELSE LET shown == showFrame(cleared, cleared.currentFrame) IN
       IF shown.currentFrame + 1 >= FrameCount(shown.currentModelName)
       THEN [shown EXCEPT !.currentFrame = 0,
                          !.animationTimeout = "onAnimationComplete"]
       ELSE [shown EXCEPT !.currentFrame = @ + 1,
                          !.animationTimeout = "playNextFrame"]

startAnimation(a) ==
  playNextFrame([a EXCEPT
    !.animationRunning = TRUE,
    !.currentFrame = IF a.currentModelName = "sleeping" /\ a.sleepingLoopCount > 0
                     THEN 1 ELSE 0])

switchToModel(a, modelName) ==
  startAnimation([extractFrames(a, modelName) EXCEPT
                    !.currentFrame = 0, !.animationRunning = FALSE])

\* the same callback, leaving sleeping for idle after every pass
onAnimationCompleteWakes(a) ==
  IF a.animationState = "wave"
  THEN switchToModel([a EXCEPT !.animationState = "idle", !.idleLoopCount = 1,
                               !.idleFrames = 0], "idle")
  ELSE IF a.animationState = "idle"
  THEN LET counted == [a EXCEPT !.idleLoopCount = @ + 1] IN
       IF counted.transitionToSleepingAfterIdle
       THEN switchToModel([counted EXCEPT !.transitionToSleepingAfterIdle = FALSE,
                                          !.animationState = "sleeping",
                                          !.sleepingLoopCount = 0,
                                          !.idleFrames = 0], "sleeping")
       ELSE IF counted.idleLoopCount < maxIdleLoops
       THEN startAnimation([counted EXCEPT !.currentFrame = 0])
       ELSE switchToModel([counted EXCEPT !.animationState = "sleeping",
                                          !.sleepingLoopCount = 0,
                                          !.idleFrames = 0], "sleeping")
  ELSE switchToModel([a EXCEPT !.sendButtonPressed = FALSE,
                               !.animationState = "idle", !.idleLoopCount = 1,
                               !.sleepingLoopCount = 0, !.idleFrames = 0], "idle")

onAnimationComplete(a) ==
  IF a.animationState = "wave"
  THEN switchToModel([a EXCEPT !.animationState = "idle", !.idleLoopCount = 1,
                               !.idleFrames = 0], "idle")
  ELSE IF a.animationState = "idle"
  THEN LET counted == [a EXCEPT !.idleLoopCount = @ + 1] IN
       IF counted.transitionToSleepingAfterIdle
       THEN switchToModel([counted EXCEPT !.transitionToSleepingAfterIdle = FALSE,
                                          !.animationState = "sleeping",
                                          !.sleepingLoopCount = 0,
                                          !.idleFrames = 0], "sleeping")
       ELSE IF counted.idleLoopCount < maxIdleLoops
       THEN startAnimation([counted EXCEPT !.currentFrame = 0])
       ELSE switchToModel([counted EXCEPT !.animationState = "sleeping",
                                          !.sleepingLoopCount = 0,
                                          !.idleFrames = 0], "sleeping")
  ELSE LET counted == [a EXCEPT !.sleepingLoopCount = Min({@ + 1, MaxLoops})] IN
       IF counted.sendButtonPressed
       THEN switchToModel([counted EXCEPT !.sendButtonPressed = FALSE,
                                          !.animationState = "idle",
                                          !.idleLoopCount = 1,
                                          !.sleepingLoopCount = 0,
                                          !.idleFrames = 0], "idle")
       ELSE startAnimation([counted EXCEPT !.currentFrame = 0])

\* always back to idle, and to sleeping after one idle pass
restoreAnimationState(a) ==
  startAnimation([extractFrames(a, "idle") EXCEPT
    !.heartAnimationTimeout = "null", !.animationState = "idle",
    !.idleLoopCount = 1, !.transitionToSleepingAfterIdle = TRUE,
    !.currentFrame = 0, !.animationRunning = FALSE,
    !.heartAnimationPlaying = FALSE,
    !.since = IF a.since = "load" THEN "load" ELSE "heart", !.idleFrames = 0])

playHeartFrames(a) ==
  LET cleared == [a EXCEPT !.heartAnimationTimeout = "null"] IN
  IF cleared.currentFrame >= FrameCount(cleared.currentModelName)
  THEN restoreAnimationState(cleared)
  ELSE [showFrame(cleared, cleared.currentFrame) EXCEPT
          !.currentFrame = @ + 1, !.heartAnimationTimeout = "playHeartFrames"]

playHeartAnimation(a) ==
  IF a.heartAnimationPlaying THEN a
  ELSE playHeartFrames([extractFrames(a, "heart") EXCEPT
         !.heartAnimationTimeout = "null", !.animationTimeout = "null",
         !.heartAnimationPlaying = TRUE, !.animationRunning = FALSE,
         !.currentFrame = 0])

\* a click that hits a frame of the model
onModelClick(a) ==
  IF a.heartAnimationPlaying THEN a ELSE playHeartAnimation(a)

restoreAfterThinking(a) ==
  startAnimation([extractFrames(a, "idle") EXCEPT
    !.thinkingAnimationTimeout = "null", !.animationState = "idle",
    !.idleLoopCount = 1, !.sendButtonPressed = FALSE,
    !.currentFrame = 0, !.animationRunning = FALSE,
    !.thinkingAnimationPlaying = FALSE])

playThinkingFrames(a) ==
  LET cleared == [a EXCEPT !.thinkingAnimationTimeout = "null"]
      frameNumber == cleared.currentFrame + 1 IN
  IF cleared.currentFrame >= FrameCount(cleared.currentModelName)
  THEN restoreAfterThinking(cleared)
  ELSE LET shown == showFrame(cleared, cleared.currentFrame)
           moved ==
             IF frameNumber = 4
             THEN LET counted == [shown EXCEPT
                        !.thinkingLoopCount = Min({@ + 1, MaxLoops})] IN
                  IF shown.thinkingLoopCount + 1 < 4
                  THEN [counted EXCEPT !.currentFrame = 2]
                  ELSE [counted EXCEPT !.currentFrame = @ + 1]
             ELSE [shown EXCEPT !.currentFrame = @ + 1] IN
       [moved EXCEPT !.thinkingAnimationTimeout = "playThinkingFrames"]

\* a send-button press that also records itself in sendButtonPressed
playThinkingAnimationRecordsPress(a) ==
  IF a.thinkingAnimationPlaying THEN [a EXCEPT !.sendButtonPressed = TRUE]
  ELSE playThinkingFrames([extractFrames(a, "thinking") EXCEPT
         !.thinkingAnimationTimeout = "null", !.animationTimeout = "null",
         !.thinkingAnimationPlaying = TRUE, !.thinkingLoopCount = 0,
         !.sendButtonPressed = TRUE,
         !.animationRunning = FALSE, !.currentFrame = 0])

playThinkingAnimation(a) ==
  IF a.thinkingAnimationPlaying THEN a
  ELSE playThinkingFrames([extractFrames(a, "thinking") EXCEPT
         !.thinkingAnimationTimeout = "null", !.animationTimeout = "null",
         !.thinkingAnimationPlaying = TRUE, !.thinkingLoopCount = 0,
         !.animationRunning = FALSE, !.currentFrame = 0])

stopAnimation(a) == [a EXCEPT !.animationRunning = FALSE]

\* dispose: stopAnimation, then the renderer and the scene are let go
dispose(a) == stopAnimation(a)

\* onAllModelsLoaded: the five models are there and wave starts
AnimatorLoaded == switchToModel(AnimatorConstructed, "wave")

(***************************************************************************)
(* State                                                                   *)
(***************************************************************************)
VARIABLES
  variant,   \* which intentAgent module is loaded: with or without reasoning
  heap,      \* the AgentState objects, by address
  pipes,     \* the processMessage invocations, in order of their start
  reqs,      \* the HTTP requests received, in order of arrival
  chat,      \* the chat page: its state object, its elements, its fetches
  anim       \* the SoulBuddyAnimator object and its pending timers

vars == <<variant, heap, pipes, reqs, chat, anim>>

NoResult == [t |-> "undef"]

\* one AgentState object kept for every call
AllocShared(h) == 1

\* the address of a new object
Alloc(h) == Len(h) + 1

Store(h, a, rec) == IF a > Len(h) THEN Append(h, rec) ELSE [h EXCEPT ![a] = rec]

\* processMessage up to its await: a new AgentState carrying userInput is
\* handed to the graph, whose entry point is processInput.  hp = [heap, pipes]
processMessage(hp, userInput) ==
  LET a == Alloc(hp.heap)
      initialState == [NewAgentState(variant) EXCEPT !.userInput = userInput] IN
  [heap |-> Store(hp.heap, a, initialState),
   pipes |-> Append(hp.pipes,
               [pc |-> "processInput", st |-> a, input |-> userInput,
                outs |-> <<>>, trace |-> <<>>, calls |-> <<>>,
                result |-> NoResult, raised |-> <<>>, rank |-> 0])]

Pids == 1..Len(pipes)

StateOf(p) == heap[pipes[p].st]

\* a node of pipeline p returned r = [ok, s, msg] after consuming outcome o:
\* the graph moves to `next`, or invoke() rejects when the node threw
NodeDone(p, r, o, next) ==
  /\ heap' = IF r.ok THEN [heap EXCEPT ![pipes[p].st] = r.s] ELSE heap
  /\ pipes' = [pipes EXCEPT ![p].pc = IF r.ok THEN next ELSE "rejected",
                            ![p].raised = IF r.ok THEN @ ELSE r.msg,
                            ![p].outs = Append(@, o)]

\* what constructing SystemMessage and HumanMessage can do: the constructors
\* are given a string by every caller that validates; for another value the
\* library may accept or throw
CtorOutcomes(input) ==
  {[throws |-> FALSE, content |-> JUndef, msg |-> <<>>]} \cup
  (IF IsString(input) THEN {}
   ELSE {[throws |-> TRUE, content |-> JUndef, msg |-> <<"invalid message content">>]})

(***************************************************************************)
(* Pipeline actions: one per stretch of a node between two awaits          *)
(***************************************************************************)
ProcessInputStep(p, o) ==
  /\ pipes[p].pc = "processInput"
  /\ o \in CtorOutcomes(pipes[p].input)
  /\ LET r == processInput(StateOf(p), o) IN
     /\ heap' = IF r.ok THEN [heap EXCEPT ![pipes[p].st] = r.s] ELSE heap
     /\ pipes' = [pipes EXCEPT ![p].pc = IF r.ok THEN "identifyIntent" ELSE "rejected",
                               ![p].raised = IF r.ok THEN @ ELSE r.msg,
                               ![p].outs = Append(@, o),
                               ![p].trace = Append(@, "processInput")]
  /\ UNCHANGED <<chat, anim, variant, reqs>>

IdentifyIntentInvoke(p) ==
  /\ pipes[p].pc = "identifyIntent"
  /\ pipes' = [pipes EXCEPT ![p].pc = "awaitIntent",
                            ![p].trace = Append(@, "identifyIntent"),
                            ![p].calls = Append(@, [stage |-> "identifyIntent",
                                                    messages |-> identifyIntentMessages(StateOf(p))])]
  /\ UNCHANGED <<chat, anim, variant, heap, reqs>>

\* a graph whose edge out of identifyIntent leads to END when the node
\* recorded an error
IdentifyIntentSettleAbort(p, o) ==
  /\ pipes[p].pc = "awaitIntent"
  /\ LET r == identifyIntent(StateOf(p), o) IN
     NodeDone(p, r, o, IF r.s.error # JNull THEN "END" ELSE "generateResponse")
  /\ UNCHANGED <<chat, anim, variant, reqs>>

\* a classification call that is made again once when it failed
IdentifyIntentSettleRetry(p, o) ==
  /\ pipes[p].pc = "awaitIntent"
  /\ IF o.throws /\ Len(pipes[p].calls) < 2
     THEN /\ pipes' = [pipes EXCEPT ![p].pc = "awaitIntent",
                                    ![p].calls = Append(@, [stage |-> "identifyIntent",
                                                  messages |-> identifyIntentMessages(StateOf(p))])]
          /\ heap' = heap
     ELSE NodeDone(p, identifyIntent(StateOf(p), o), o, "generateResponse")
  /\ UNCHANGED <<chat, anim, variant, reqs>>

IdentifyIntentSettle(p, o) ==
  /\ pipes[p].pc = "awaitIntent"
  /\ NodeDone(p, identifyIntent(StateOf(p), o), o, "generateResponse")
  /\ UNCHANGED <<chat, anim, variant, reqs>>

GenerateResponseInvoke(p) ==
  /\ pipes[p].pc = "generateResponse"
  /\ pipes' = [pipes EXCEPT ![p].pc = IF variant = "reasoning" THEN "awaitReasoning"
                                      ELSE "awaitReply",
                            ![p].trace = Append(@, "generateResponse"),
                            ![p].calls = Append(@, [stage |-> IF variant = "reasoning"
                                                              THEN "reasoning" ELSE "reply",
                                                    messages |-> generateResponseMessages(variant, StateOf(p))])]
  /\ UNCHANGED <<chat, anim, variant, heap, reqs>>

ReasoningSettle(p, o) ==
  /\ pipes[p].pc = "awaitReasoning"
  /\ LET r == generateResponseReasoning(variant, StateOf(p), o) IN
     /\ heap' = IF r.ok THEN [heap EXCEPT ![pipes[p].st] = r.s] ELSE heap
     /\ pipes' = [pipes EXCEPT
          ![p].pc = IF ~r.ok THEN "rejected" ELSE IF r.awaiting THEN "awaitReply" ELSE "END",
          ![p].raised = IF r.ok THEN @ ELSE r.msg,
          ![p].outs = Append(@, o),
          ![p].calls = IF r.ok /\ r.awaiting
                       THEN Append(@, [stage |-> "reply",
                                       messages |-> responseMessages(variant, r.s)])
                       ELSE @]
  /\ UNCHANGED <<chat, anim, variant, reqs>>

ReplySettle(p, o) ==
  /\ pipes[p].pc = "awaitReply"
  /\ NodeDone(p, generateResponseReply(variant, StateOf(p), o), o, "END")
  /\ UNCHANGED <<chat, anim, variant, reqs>>

\* graph.invoke resolved: processMessage builds and returns its result
ProcessMessageReturn(p) ==
  /\ pipes[p].pc = "END"
  /\ pipes' = [pipes EXCEPT ![p].pc = "returned",
                            ![p].trace = Append(@, "END"),
                            ![p].result = ResultOf(variant, StateOf(p)),
                            ![p].rank = 1 + Cardinality({q \in Pids : pipes[q].pc = "returned"})]
  /\ UNCHANGED <<chat, anim, variant, heap, reqs>>

(***************************************************************************)
(* Sample inputs: messages, and what the model replies                     *)
(***************************************************************************)
MsgHello == JStr(<<"H", "e", "l", "l", "o", " ", "t", "h", "e", "r", "e", "!">>)

MsgGibberish == JStr(<<"a", "s", "d", "k", "j", "f">>)

MsgQuestion == JStr(<<"W", "h", "a", "t", " ", "t", "i", "m", "e", " ", "i", "s", " ", "i", "t", "?">>)

MsgCommand == JStr(<<"C", "a", "n", " ", "y", "o", "u", " ", "h", "e", "l", "p", " ", "m", "e", "?">>)

MsgGoodbye == JStr(<<"T", "h", "a", "n", "k", "s", " ", "f", "o", "r", " ", "t", "h", "e", " ", "h", "e", "l", "p">>)

MsgClarify == JStr(<<"E", "x", "p", "l", "a", "i", "n", " ", "w", "h", "a", "t", " ", "i", "s", " ", "n", "e", "w">>)

MsgInfo == JStr(<<"S", "h", "o", "w", " ", "m", "e", " ", "h", "o", "w">>)

MsgGreetQuestion == JStr(<<"H", "e", "y", ",", " ", "w", "h", "o", " ", "c", "a", "n", " ", "a", "d", "d", "?">>)

MsgQuestionCommand == JStr(<<"W", "h", "e", "n", " ", "i", "s", " ", "i", "t", " ", "b", "o", "o", "k", "e", "d", "?">>)

MsgBlank == JStr(<<" ", " ">>)

MsgEmpty == JStr(<<>>)

MaxMessageLength == 1000

\* a message of n characters
MsgOfLength(n) == JStr([i \in 1..n |-> "x"])

MsgNumber == JNum(123)

ReplyExample ==
  <<"{", "\"intent\"", ":", "\"greeting\"", ",", "\"confidence\"", ":", "0.92", ",", "\"entities\"", ":", "{", "}", "}">>

ReplyEntities ==
  <<"Here is the classification:", "\n", "{", "\n", " ", "\"intent\"", ":", " ", "\"question\"", ",", "\n", " ", "\"confidence\"", ":", " ", "0.9", ",", "\n", " ", "\"entities\"", ":", " ", "{", "\"person\"", ":", " ", "\"Jane\"", "}", "\n", "}">>

ReplyZeroEntities ==
  <<"{", "\"intent\"", ":", "\"greeting\"", ",", "\"confidence\"", ":", "0", ",", "\"entities\"", ":", "{", "}", "}">>

ReplyFlat ==
  <<"{", "\"intent\"", ":", "\"greeting\"", ",", "\"confidence\"", ":", "0.9", "}">>

ReplyFlatZero ==
  <<"{", "\"intent\"", ":", "\"question\"", ",", "\"confidence\"", ":", "0", ",", "\"entities\"", ":", "null", "}">>

ReplyTrailingComma ==
  <<"{", "\n", "\"intent\"", ":", "\"greeting\"", ",", "\n", "\"confidence\"", ":", "0.9", ",", "\n", "}", " ", "Hope this helps.">>

ReplyMissingKeys ==
  <<"{", "\"confidence\"", ":", "0.9", "}">>

ReplyIntentOnly ==
  <<"{", "\"intent\"", ":", "\"greeting\"", "}">>

ReplyEntitiesOnly ==
  <<"{", "\"entities\"", ":", "\"Jane\"", "}">>

ReplyEmptyObject ==
  <<"{", " ", "}">>

ReplyBooking ==
  <<"{", "\"intent\"", ":", "\"booking\"", ",", "\"confidence\"", ":", "1.5", "}">>

ReplyMalformedNone ==
  <<"{", "intent", ":", "greeting", "}">>

ReplyMalformedBoth ==
  <<"{", "\"intent\"", " ", ":", "\n", "\"question\"", " ", "\"confidence\"", ":", " ", "0.9", "}">>

ReplyMalformedNegative ==
  <<"{", "\"intent\"", ":", "\"\"", ",", "\"confidence\"", ":", "-0.5", ",", ",", "}">>

ReplyMalformedConfidenceOnly ==
  <<"{", "\"confidence\"", ":", "0.9", " ", "oops", "}">>

ReplyPatternOutside ==
  <<"\"intent\"", ":", "\"question\"", " ", "{", "\"intent\"", ":", "\"greeting\"", ",", "oops", "}">>

ReplyNoBraces ==
  <<"Hello!", " ", "How can I help you today?">>

ReplyOnlyOpen ==
  <<"{", "\"intent\"", ":", "\"greeting\"">>

ReplyCloseBeforeOpen ==
  <<"}", " ", "\"intent\"", ":", "\"greeting\"", " ", "{">>

ReasoningNested ==
  <<" ", "{", "\"user_goal\"", ":", "\"greeting\"", ",", "\"entities\"", ":", "{", "\"person\"", ":", "\"Jane\"", ",", "}", ",", "\n", "}", "\n">>

ReasoningMalformed ==
  <<"{", "oops", "}">>

ReasoningNoBraces ==
  <<"The user greets the assistant.">>

ReplyText ==
  <<" ", "Hello!", " ", "How can I help you today?", "\n">>

Reply(content) == [throws |-> FALSE, content |-> JStr(content), msg |-> <<>>]

\* a reply whose content is not a string (a list of content blocks)
ReplyBlocks == [throws |-> FALSE, content |-> JArr(<<>>), msg |-> <<>>]

\* the call rejects: service down, timeout
CallFails == [throws |-> TRUE, content |-> JUndef, msg |-> <<"fetch failed">>]

ClassifyReplies ==
  { ReplyExample,
    ReplyEntities,
    ReplyZeroEntities,
    ReplyFlat,
    ReplyFlatZero,
    ReplyTrailingComma,
    ReplyMissingKeys,
    ReplyIntentOnly,
    ReplyEntitiesOnly,
    ReplyEmptyObject,
    ReplyBooking,
    ReplyMalformedNone,
    ReplyMalformedBoth,
    ReplyMalformedNegative,
    ReplyMalformedConfidenceOnly,
    ReplyPatternOutside,
    ReplyNoBraces,
    ReplyOnlyOpen,
    ReplyCloseBeforeOpen }

ClassifyOutcomes == {Reply(c) : c \in ClassifyReplies} \cup {ReplyBlocks, CallFails}

ReasoningOutcomes ==
  {Reply(c) : c \in {ReasoningNested, ReasoningMalformed, ReasoningNoBraces}}
    \cup {ReplyBlocks, CallFails}

ReplyOutcomes == {Reply(ReplyText), ReplyBlocks, CallFails}

AgentInputs ==
  {MsgHello, MsgGibberish, MsgQuestion, MsgCommand, MsgGoodbye, MsgClarify, MsgInfo,
   MsgGreetQuestion, MsgQuestionCommand, MsgBlank, MsgEmpty, MsgNumber, JNull}

(***************************************************************************)
(* SpecAgent: one direct call agent.processMessage(userInput), as the test *)
(* scripts make it, for every sample input and every outcome of each call  *)
(***************************************************************************)
InitAgent ==
  /\ variant \in Variants
  /\ reqs = <<>>
  /\ chat = ChatLoaded
  /\ anim = AnimatorLoaded
  /\ \E userInput \in AgentInputs :
       LET hp == processMessage([heap |-> <<>>, pipes |-> <<>>], userInput) IN
       heap = hp.heap /\ pipes = hp.pipes

NextAgent ==
  \E p \in Pids :
    \/ \E o \in CtorOutcomes(pipes[p].input) : ProcessInputStep(p, o)
    \/ IdentifyIntentInvoke(p)
    \/ \E o \in ClassifyOutcomes : IdentifyIntentSettle(p, o)
    \/ GenerateResponseInvoke(p)
    \/ \E o \in ReasoningOutcomes : ReasoningSettle(p, o)
    \/ \E o \in ReplyOutcomes : ReplySettle(p, o)
    \/ ProcessMessageReturn(p)

SpecAgent == InitAgent /\ [][NextAgent]_vars

(***************************************************************************)
(* Frontend/server.js: POST /api/classify and POST /api/classify-batch     *)
(***************************************************************************)
MaxBatchMessages == 10

\* bounds of the server specification
MaxReqs == 2

MaxPipes == 2

Rids == 1..Len(reqs)

Settled(p) == pipes[p].pc \in {"returned", "rejected"}

NewRequest(kind, body, pids, status, json) ==
  [kind |-> kind, body |-> body, pids |-> pids, status |-> status, json |-> json]

\* the length check with >= in place of >
classifyRejectionOffByOne(message) ==
  IF ~Truthy(message) \/ ~IsString(message) \/ Len(Trim(message.s)) = 0
  THEN "Invalid input"
  ELSE IF Len(message.s) >= MaxMessageLength THEN "Message too long"
  ELSE ""

\* the validation of /api/classify: "" when the message is accepted
classifyRejection(message) ==
  IF ~Truthy(message) \/ ~IsString(message) \/ Len(Trim(message.s)) = 0
  THEN "Invalid input"
  ELSE IF Len(message.s) > MaxMessageLength THEN "Message too long"
  ELSE ""

\* the handler of POST /api/classify up to its await
PostClassify(message) ==
  /\ Len(reqs) < MaxReqs
  /\ UNCHANGED <<chat, anim, variant>>
  /\ LET why == classifyRejection(message) IN
     IF why # ""
     THEN /\ reqs' = Append(reqs, NewRequest("classify", message, <<>>, 400,
                                             [error |-> why]))
          /\ UNCHANGED <<heap, pipes>>
     ELSE /\ Len(pipes) < MaxPipes
          /\ LET hp == processMessage([heap |-> heap, pipes |-> pipes], message) IN
             heap' = hp.heap /\ pipes' = hp.pipes
          /\ reqs' = Append(reqs, NewRequest("classify", message, <<Len(pipes) + 1>>, 0,
                                             NoResult))

\* the handler of POST /api/classify after its await: res.json of the
\* result, or the catch when processMessage rejected
ClassifyRespond(r) ==
  /\ reqs[r].kind = "classify"
  /\ reqs[r].status = 0
  /\ LET p == reqs[r].pids[1] IN
     /\ Settled(p)
     /\ reqs' = [reqs EXCEPT ![r] =
          IF pipes[p].pc = "returned"
          THEN [@ EXCEPT !.status = 200,
                         !.json = pipes[p].result @@ [metadata |-> [model |-> "llama3.2"]]]
          ELSE [@ EXCEPT !.status = 500,
                         !.json = [error |-> JStr(<<"Processing failed">>),
                                   message |-> JStr(pipes[p].raised),
                                   intent |-> JStr(<<"unknown">>),
                                   confidence |-> JNum(0),
                                   entities |-> JObj(EmptyMap),
                                   response |-> JStr(<<"I apologize, but I encountered an error processing your message. Please try again.">>)]]]
  /\ UNCHANGED <<chat, anim, variant, heap, pipes>>

\* the length check with >= in place of >
batchRejectionOffByOne(messages) ==
  IF messages.t # "arr" \/ Len(messages.a) = 0 THEN "Invalid input"
  ELSE IF Len(messages.a) >= MaxBatchMessages THEN "Too many messages"
  ELSE ""

\* the validation of /api/classify-batch: "" when the batch is accepted
batchRejection(messages) ==
  IF messages.t # "arr" \/ Len(messages.a) = 0 THEN "Invalid input"
  ELSE IF Len(messages.a) > MaxBatchMessages THEN "Too many messages"
  ELSE ""

\* messages.map(async (message) => agent.processMessage(message)): every
\* call runs up to its first await before the next one starts
RECURSIVE mapProcessMessage(_, _)
mapProcessMessage(hp, messages) ==
  IF messages = <<>> THEN hp
  ELSE mapProcessMessage(processMessage(hp, Head(messages)), Tail(messages))

\* the handler of POST /api/classify-batch up to await Promise.all; the
\* pipelines in the model are kept to `room`
PostClassifyBatchWithin(messages, room) ==
  /\ Len(reqs) < MaxReqs
  /\ UNCHANGED <<chat, anim, variant>>
  /\ LET why == batchRejection(messages) IN
     IF why # ""
     THEN /\ reqs' = Append(reqs, NewRequest("batch", messages, <<>>, 400,
                                             [error |-> why]))
          /\ UNCHANGED <<heap, pipes>>
     ELSE /\ Len(pipes) + Len(messages.a) <= room
          /\ LET hp == mapProcessMessage([heap |-> heap, pipes |-> pipes], messages.a) IN
             heap' = hp.heap /\ pipes' = hp.pipes
          /\ reqs' = Append(reqs, NewRequest("batch", messages,
                        [i \in 1..Len(messages.a) |-> Len(pipes) + i], 0, NoResult))

PostClassifyBatch(messages) == PostClassifyBatchWithin(messages, MaxPipes)

\* the per-message catch of the batch
batchCatch(msg) ==
  [intent |-> JStr(<<"unknown">>), confidence |-> JNum(0), entities |-> JObj(EmptyMap),
   response |-> JStr(<<"Error processing message">>), error |-> JStr(msg)]

\* results collected in the order in which the pipelines finished
BatchRespondByCompletion(r) ==
  /\ reqs[r].kind = "batch"
  /\ reqs[r].status = 0
  /\ \A i \in 1..Len(reqs[r].pids) : Settled(reqs[r].pids[i])
  /\ LET n == Len(reqs[r].pids)
         Nth(i) == CHOOSE j \in 1..n :
                     Cardinality({k \in 1..n :
                        pipes[reqs[r].pids[k]].rank < pipes[reqs[r].pids[j]].rank}) = i - 1
         results == [i \in 1..n |->
                       LET p == reqs[r].pids[Nth(i)] IN
                       IF pipes[p].pc = "returned" THEN pipes[p].result
                       ELSE batchCatch(pipes[p].raised)] IN
     reqs' = [reqs EXCEPT ![r].status = 200,
                          ![r].json = [results |-> results, count |-> Len(results)]]
  /\ UNCHANGED <<chat, anim, variant, heap, pipes>>

\* Promise.all resolved: every mapped promise has settled; results keep the
\* order of the promises, which is the order of messages
BatchRespond(r) ==
  /\ reqs[r].kind = "batch"
  /\ reqs[r].status = 0
  /\ \A i \in 1..Len(reqs[r].pids) : Settled(reqs[r].pids[i])
  /\ LET results == [i \in 1..Len(reqs[r].pids) |->
                       LET p == reqs[r].pids[i] IN
                       IF pipes[p].pc = "returned" THEN pipes[p].result
                       ELSE batchCatch(pipes[p].raised)] IN
     reqs' = [reqs EXCEPT ![r].status = 200,
                          ![r].json = [results |-> results, count |-> Len(results)]]
  /\ UNCHANGED <<chat, anim, variant, heap, pipes>>

(***************************************************************************)
(* Spec: the server, with requests in flight at the same time              *)
(***************************************************************************)
ServerClassifyBodies == {MsgHello}

\* a batch of n messages: the last one blank, the others a greeting
MixedBatch(n) == JArr([i \in 1..n |-> IF i = n THEN MsgBlank ELSE MsgHello])

BatchBodies == {MixedBatch(n) : n \in 1..MaxPipes}

ServerClassifyOutcomes == {Reply(ReplyEntities), CallFails}

ServerReasoningOutcomes == {Reply(ReasoningNoBraces), CallFails}

ServerReplyOutcomes == {Reply(ReplyText)}

Init ==
  /\ variant = "reasoning"
  /\ heap = <<>>
  /\ pipes = <<>>
  /\ reqs = <<>>
  /\ chat = ChatLoaded
  /\ anim = AnimatorLoaded

Next ==
  \/ \E message \in ServerClassifyBodies : PostClassify(message)
  \/ \E messages \in BatchBodies : PostClassifyBatch(messages)
  \/ \E r \in Rids : ClassifyRespond(r)
  \/ \E r \in Rids : BatchRespond(r)
  \/ \E p \in Pids : \E o \in CtorOutcomes(pipes[p].input) : ProcessInputStep(p, o)
  \/ \E p \in Pids : IdentifyIntentInvoke(p)
  \/ \E p \in Pids : \E o \in ServerClassifyOutcomes : IdentifyIntentSettle(p, o)
  \/ \E p \in Pids : GenerateResponseInvoke(p)
  \/ \E p \in Pids : \E o \in ServerReasoningOutcomes : ReasoningSettle(p, o)
  \/ \E p \in Pids : \E o \in ServerReplyOutcomes : ReplySettle(p, o)
  \/ \E p \in Pids : ProcessMessageReturn(p)

Spec == Init /\ [][Next]_vars

(***************************************************************************)
(* SpecValidation: POST /api/classify alone, for every kind of message     *)
(***************************************************************************)
ClassifyBodies ==
  {JUndef, JNull, MsgNumber, JNum(0), MsgEmpty, MsgBlank, MsgHello,
   MsgOfLength(MaxMessageLength), MsgOfLength(MaxMessageLength + 1)}

NextValidation ==
  \/ \E message \in ClassifyBodies : PostClassify(message)
  \/ \E r \in Rids : ClassifyRespond(r)
  \/ \E p \in Pids : \E o \in CtorOutcomes(pipes[p].input) : ProcessInputStep(p, o)
  \/ \E p \in Pids : IdentifyIntentInvoke(p)
  \/ \E p \in Pids : \E o \in ServerClassifyOutcomes : IdentifyIntentSettle(p, o)
  \/ \E p \in Pids : GenerateResponseInvoke(p)
  \/ \E p \in Pids : \E o \in ServerReasoningOutcomes : ReasoningSettle(p, o)
  \/ \E p \in Pids : \E o \in ServerReplyOutcomes : ReplySettle(p, o)
  \/ \E p \in Pids : ProcessMessageReturn(p)

SpecValidation == Init /\ [][NextValidation]_vars

(***************************************************************************)
(* SpecBatch: POST /api/classify-batch alone, for every kind of body up to *)
(* the largest batch.  The pipelines of a batch run one after the other    *)
(* here and every call replies: the pipelines do not touch each other's    *)
(* state, and what is looked at is the admission of the batch              *)
(***************************************************************************)
BatchOf(n) == JArr([i \in 1..n |-> MsgHello])

BatchAdmissionBodies ==
  {JUndef, JNull, MsgHello, JObj(EmptyMap), JArr(<<>>), BatchOf(1),
   BatchOf(MaxBatchMessages), BatchOf(MaxBatchMessages + 1)}

\* every pipeline started before p has finished
InTurn(p) == \A q \in 1..(p - 1) : Settled(q)

NextBatch ==
  \/ \E messages \in BatchAdmissionBodies :
        PostClassifyBatchWithin(messages, MaxBatchMessages)
  \/ \E r \in Rids : BatchRespond(r)
  \/ \E p \in Pids : InTurn(p) /\ \E o \in CtorOutcomes(pipes[p].input) : ProcessInputStep(p, o)
  \/ \E p \in Pids : InTurn(p) /\ IdentifyIntentInvoke(p)
  \/ \E p \in Pids : InTurn(p) /\ IdentifyIntentSettle(p, Reply(ReplyExample))
  \/ \E p \in Pids : InTurn(p) /\ GenerateResponseInvoke(p)
  \/ \E p \in Pids : InTurn(p) /\ ReasoningSettle(p, Reply(ReasoningNoBraces))
  \/ \E p \in Pids : InTurn(p) /\ ReplySettle(p, Reply(ReplyText))
  \/ \E p \in Pids : InTurn(p) /\ ProcessMessageReturn(p)

SpecBatch == Init /\ [][NextBatch]_vars

(***************************************************************************)
(* Vocabulary of the properties                                            *)
(***************************************************************************)
Unknown == JStr(<<"unknown">>)

ReturnedPipes == {p \in Pids : pipes[p].pc = "returned"}

\* the outcome of the i-th external call of pipeline p: 1 the construction
\* of the messages, 2 the classification call, 3 and 4 the calls of
\* generateResponse
Out(p, i) == pipes[p].outs[i]

Classified(p) == Len(pipes[p].outs) >= 2

\* the classification call replied with text
ClassifyText(p) == Classified(p) /\ ~Out(p, 2).throws /\ IsString(Out(p, 2).content)

\* some call to the model made for pipeline p rejected
ClassifyCallFailed(p) == Classified(p) /\ Out(p, 2).throws

ResponseCallFailed(p) == \E i \in 3..Len(pipes[p].outs) : Out(p, i).throws

FullTrace == <<"processInput", "identifyIntent", "generateResponse", "END">>

IsPrefix(a, b) == Len(a) <= Len(b) /\ SubSeq(b, 1, Len(a)) = a

\* the whole pipeline run alone, as a function of the input and of the
\* outcomes of its external calls
RunAlone(v, userInput, outs) ==
  LET s0 == [NewAgentState(v) EXCEPT !.userInput = userInput]
      s1 == processInput(s0, outs[1]).s
      s2 == identifyIntent(s1, outs[2]).s
      s3 == IF v = "reasoning"
            THEN LET r == generateResponseReasoning(v, s2, outs[3]) IN
                 IF r.awaiting THEN generateResponseReply(v, r.s, outs[4]).s ELSE r.s
            ELSE generateResponseReply(v, s2, outs[3]).s IN
  ResultOf(v, s3)

(***************************************************************************)
(* C1                                                                      *)
(***************************************************************************)
\* the JSON object a reply contains: the balanced value that starts at the
\* first "{" of the reply
ContainedObject(content) ==
  IF Positions(content, "{") = {} THEN ParseFail
  ELSE ParseValue(content, Min(Positions(content, "{")))

\* the reply holds a valid object with a string intent, a number confidence
\* and an object of entities
HasIntentObject(content) ==
  LET r == ContainedObject(content) IN
  /\ r.ok
  /\ Get(r.v, KIntent).t = "str"
  /\ Get(r.v, KConfidence).t = "num"
  /\ Get(r.v, KEntities).t = "obj"

\* C1: whenever the classification reply contains a syntactically valid JSON
\* object with intent, confidence and entities, the intent, confidence and
\* entities that processMessage returns are the values of that object
C1_ParsedValuesReturned ==
  \A p \in ReturnedPipes :
    (ClassifyText(p) /\ HasIntentObject(Out(p, 2).content.s)) =>
      LET obj == ContainedObject(Out(p, 2).content.s).v IN
      /\ pipes[p].result.intent = Get(obj, KIntent)
      /\ pipes[p].result.confidence = Get(obj, KConfidence)
      /\ pipes[p].result.entities = Get(obj, KEntities)

(***************************************************************************)
(* C2                                                                      *)
(***************************************************************************)
\* C2: processMessage never raises: whatever the outcomes of its calls, no
\* invocation ends rejected, and every returned result carries the fields
\* intent, confidence, entities, response and error
C2_NeverRaises ==
  \A p \in Pids :
    /\ pipes[p].pc # "rejected"
    /\ pipes[p].pc = "returned" =>
         {"intent", "confidence", "entities", "response", "error"}
            \subseteq DOMAIN pipes[p].result

\* a call returned although the construction of the messages threw and every
\* call to the model rejected
C2_Witness ==
  \E p \in ReturnedPipes :
    \A i \in 1..Len(pipes[p].outs) : Out(p, i).throws

(***************************************************************************)
(* C3                                                                      *)
(***************************************************************************)
\* something threw inside the try block of identifyIntent: the call itself,
\* content.match on a reply that is no string, or toLowerCase on an input
\* that is no string
ClassificationThrew(p) ==
  /\ Classified(p)
  /\ \/ Out(p, 2).throws
     \/ ~IsString(Out(p, 2).content)
     \/ /\ ~FirstSpan(Out(p, 2).content.s).found
        /\ ~IsString(pipes[p].input)

\* C3: if anything throws inside the classification stage, identifyIntent
\* returns normally (the pipeline goes on to generateResponse) with intent
\* "unknown", confidence 0 and an error text, and intent and confidence are
\* still these in the result of processMessage
C3_ClassificationFailure ==
  \A p \in Pids :
    ClassificationThrew(p) =>
      /\ pipes[p].pc \in {"generateResponse", "awaitReasoning", "awaitReply", "END", "returned"}
      /\ StateOf(p).identifiedIntent = Unknown
      /\ StateOf(p).confidence = JNum(0)
      /\ StateOf(p).error # JNull
      /\ pipes[p].pc = "returned" =>
           /\ pipes[p].result.intent = Unknown
           /\ pipes[p].result.confidence = JNum(0)

\* the handling of the reply threw, the response stage then succeeded, and
\* the result still says unknown with confidence 0
C3_Witness ==
  \E p \in ReturnedPipes :
    /\ ClassificationThrew(p)
    /\ ~Out(p, 2).throws
    /\ ~ResponseCallFailed(p)
    /\ pipes[p].result.response # Apology
    /\ pipes[p].result.intent = Unknown

(***************************************************************************)
(* C4                                                                      *)
(***************************************************************************)
\* C4 as claimed: whenever any call to the model fails while a message is
\* processed, the result has an error and its response is the apology
C4_Original ==
  \A p \in ReturnedPipes :
    (ClassifyCallFailed(p) \/ ResponseCallFailed(p)) =>
      /\ pipes[p].result.error # JNull
      /\ pipes[p].result.response = Apology

\* C4 as amended: whenever any call to the model fails, the pipeline still
\* runs all its stages and the result has an error; the response is the
\* apology when the failed call is one of the response stage, and when only
\* the classification call failed the response is the text the model
\* replied to the response stage (trimmed in the variant with reasoning)
C4_FailureSemantics ==
  \A p \in Pids :
    /\ (ClassifyCallFailed(p) \/ ResponseCallFailed(p)) =>
         /\ pipes[p].pc # "rejected"
         /\ StateOf(p).error # JNull
    /\ pipes[p].pc = "returned" =>
         /\ (ClassifyCallFailed(p) \/ ResponseCallFailed(p)) =>
              /\ pipes[p].trace = FullTrace
              /\ pipes[p].result.error # JNull
         /\ ResponseCallFailed(p) => pipes[p].result.response = Apology
         /\ (ClassifyCallFailed(p) /\ ~ResponseCallFailed(p)
               /\ IsString(Out(p, Len(pipes[p].outs)).content)) =>
              pipes[p].result.response =
                IF variant = "reasoning"
                THEN JStr(Trim(Out(p, Len(pipes[p].outs)).content.s))
                ELSE Out(p, Len(pipes[p].outs)).content

\* the classification succeeded, a call of the response stage failed, and
\* the result carries the apology
C4_Witness ==
  \E p \in ReturnedPipes :
    /\ ~ClassifyCallFailed(p)
    /\ ResponseCallFailed(p)
    /\ pipes[p].result.response = Apology
    /\ pipes[p].result.error # JNull

(***************************************************************************)
(* C5                                                                      *)
(***************************************************************************)
\* the reply holds no "{" followed later by a "}"
NoBraceSpan(content) ==
  ~\E i, j \in 1..Len(content) : i < j /\ content[i] = "{" /\ content[j] = "}"

\* C5: for every input string whose classification reply contains no {...}
\* span, the returned intent is classifyIntentFallback of that input, the
\* confidence is 0.6 and entities is the empty object
C5_FallbackClassifier ==
  \A p \in ReturnedPipes :
    (ClassifyText(p) /\ NoBraceSpan(Out(p, 2).content.s) /\ IsString(pipes[p].input)) =>
      /\ pipes[p].result.intent = JStr(classifyIntentFallback(pipes[p].input.s))
      /\ pipes[p].result.confidence = JNum(60)
      /\ pipes[p].result.entities = JObj(EmptyMap)

\* a reply without braces to an input that the static classifier labels
C5_Witness ==
  \E p \in ReturnedPipes :
    /\ ClassifyText(p) /\ NoBraceSpan(Out(p, 2).content.s)
    /\ IsString(pipes[p].input)
    /\ pipes[p].result.intent # Unknown
    /\ pipes[p].result.confidence = JNum(60)

(***************************************************************************)
(* C6                                                                      *)
(***************************************************************************)
\* the first {...} span of the reply is no JSON after the clean-up
MalformedSpan(content) ==
  /\ ~NoBraceSpan(content)
  /\ ~JSONParse(CleanUp(FirstSpan(content).text)).ok

\* C6: when the first {...} span of the reply does not parse, the intent is
\* what the intent pattern captures in the reply ("unknown" without a
\* match), the confidence what the confidence pattern captures (0.5 without
\* a match), either one whether or not the other matched, and entities is
\* the empty object
C6_PatternRecovery ==
  \A p \in ReturnedPipes :
    (ClassifyText(p) /\ MalformedSpan(Out(p, 2).content.s)) =>
      LET content == Out(p, 2).content.s IN
      /\ pipes[p].result.intent =
           IF IntentPattern(content).found THEN JStr(IntentPattern(content).text)
           ELSE Unknown
      /\ pipes[p].result.confidence =
           IF ConfidencePattern(content).found THEN JNum(ConfidencePattern(content).n)
           ELSE JNum(50)
      /\ pipes[p].result.entities = JObj(EmptyMap)

\* a malformed span where only the confidence pattern matches
C6_Witness ==
  \E p \in ReturnedPipes :
    /\ ClassifyText(p) /\ MalformedSpan(Out(p, 2).content.s)
    /\ ~IntentPattern(Out(p, 2).content.s).found
    /\ ConfidencePattern(Out(p, 2).content.s).found
    /\ pipes[p].result.intent = Unknown
    /\ pipes[p].result.confidence # JNum(50)

(***************************************************************************)
(* C7                                                                      *)
(***************************************************************************)
BatchReqs == {r \in Rids : reqs[r].kind = "batch"}

\* some stage of pipeline p failed
StageFailed(p) == ClassificationThrew(p) \/ ResponseCallFailed(p)

\* a batch answered with one result per message, in the order of messages,
\* and not before every pipeline of the batch has finished
BatchInOrder(r) ==
  /\ (reqs[r].pids # <<>> /\ reqs[r].status # 0) =>
        \A i \in 1..Len(reqs[r].pids) : pipes[reqs[r].pids[i]].pc = "returned"
  /\ reqs[r].status = 200 =>
        /\ Len(reqs[r].json.results) = Len(reqs[r].body.a)
        /\ reqs[r].json.count = Len(reqs[r].body.a)
        /\ \A i \in 1..Len(reqs[r].body.a) :
             reqs[r].json.results[i] =
               RunAlone(variant, reqs[r].body.a[i], pipes[reqs[r].pids[i]].outs)

\* C7 as claimed: the batch answers after all N pipelines with N results in
\* the order of the messages, and a failure while one message is processed
\* turns that result into intent "unknown", confidence 0 with its own error
C7_Original ==
  \A r \in BatchReqs :
    /\ BatchInOrder(r)
    /\ reqs[r].status = 200 =>
         \A i \in 1..Len(reqs[r].pids) :
           StageFailed(reqs[r].pids[i]) =>
             /\ reqs[r].json.results[i].intent = Unknown
             /\ reqs[r].json.results[i].confidence = JNum(0)
             /\ reqs[r].json.results[i].error # JNull

\* C7 as amended: the batch answers after all N pipelines with N results in
\* the order of the messages, each one what its message and the outcomes of
\* its own calls give; a failure sets the error of that result only, with
\* intent "unknown" and confidence 0 when the classification stage failed
\* and the apology as response when a call of the response stage failed;
\* a message none of whose stages failed has no error
C7_BatchIsolation ==
  \A r \in BatchReqs :
    /\ BatchInOrder(r)
    /\ reqs[r].status = 200 =>
         \A i \in 1..Len(reqs[r].pids) :
           LET p == reqs[r].pids[i]
               res == reqs[r].json.results[i] IN
           /\ StageFailed(p) => res.error # JNull
           /\ ClassificationThrew(p) => res.intent = Unknown /\ res.confidence = JNum(0)
           /\ ResponseCallFailed(p) => res.response = Apology
           /\ (~StageFailed(p) /\ ~Out(p, 1).throws) => res.error = JNull

\* an answered batch of two different messages: the second finished first,
\* the first failed in the response stage only and the second did not fail
C7_Witness ==
  \E r \in BatchReqs :
    /\ reqs[r].status = 200
    /\ Len(reqs[r].pids) = 2
    /\ reqs[r].body.a[1] # reqs[r].body.a[2]
    /\ pipes[reqs[r].pids[2]].rank < pipes[reqs[r].pids[1]].rank
    /\ ResponseCallFailed(reqs[r].pids[1]) /\ ~ClassificationThrew(reqs[r].pids[1])
    /\ ~StageFailed(reqs[r].pids[2])
    /\ reqs[r].json.results[1].error # JNull
    /\ reqs[r].json.results[2].error = JNull

(***************************************************************************)
(* C8                                                                      *)
(***************************************************************************)
\* missing, not a string, empty, blank or longer than 1000 characters
BadMessage(m) ==
  \/ m.t # "str"
  \/ Len(m.s) = 0
  \/ \A i \in 1..Len(m.s) : IsSpace(m.s[i])
  \/ Len(m.s) > 1000

ClassifyReqs == {r \in Rids : reqs[r].kind = "classify"}

\* C8: /api/classify answers 400 to a message that is missing, not a string,
\* empty, blank or longer than 1000 characters, and processMessage is not
\* invoked for it; any other message is passed to the pipeline
C8_ClassifyValidation ==
  /\ \A r \in ClassifyReqs :
       IF BadMessage(reqs[r].body)
       THEN reqs[r].status = 400 /\ reqs[r].pids = <<>>
       ELSE /\ reqs[r].status # 400
            /\ Len(reqs[r].pids) = 1
            /\ pipes[reqs[r].pids[1]].input = reqs[r].body
  /\ Len(pipes) = Cardinality({r \in ClassifyReqs : ~BadMessage(reqs[r].body)})

\* a message of exactly 1000 characters went through the pipeline and a
\* message of 1001 characters was refused
C8_Witness ==
  \E r1, r2 \in ClassifyReqs :
    /\ reqs[r1].body.t = "str" /\ Len(reqs[r1].body.s) = 1000 /\ reqs[r1].status = 200
    /\ reqs[r2].body.t = "str" /\ Len(reqs[r2].body.s) = 1001 /\ reqs[r2].status = 400

(***************************************************************************)
(* C9                                                                      *)
(***************************************************************************)
CallStages(p) == [i \in 1..Len(pipes[p].calls) |-> pipes[p].calls[i].stage]

\* C9: every run goes through processInput, identifyIntent, generateResponse
\* once each in that order and then ends, whatever the replies and whichever
\* stage fails, and a request is answered only after the last stage of its
\* pipelines has finished
C9_LinearPipeline ==
  /\ \A p \in Pids :
       /\ IsPrefix(pipes[p].trace, FullTrace)
       /\ IsPrefix(CallStages(p), <<"identifyIntent", "reasoning", "reply">>)
       /\ pipes[p].pc = "returned" => pipes[p].trace = FullTrace
  /\ \A r \in Rids :
       (reqs[r].status # 0 /\ reqs[r].pids # <<>>) =>
         \A i \in 1..Len(reqs[r].pids) :
           /\ pipes[reqs[r].pids[i]].pc = "returned"
           /\ pipes[reqs[r].pids[i]].trace = FullTrace

\* a request answered after a run in which the classification call and the
\* reasoning call both failed
C9_Witness ==
  \E r \in ClassifyReqs :
    /\ reqs[r].status = 200
    /\ ClassifyCallFailed(reqs[r].pids[1])
    /\ ResponseCallFailed(reqs[r].pids[1])
    /\ pipes[reqs[r].pids[1]].trace = FullTrace

(***************************************************************************)
(* C10                                                                     *)
(***************************************************************************)
\* C10: every call starts on its own new AgentState (userInput '', messages
\* [], identifiedIntent null, confidence 0, entities {}, response '', error
\* null, then userInput set), no two calls share a state, and for every
\* interleaving the result of a call is the one it gives alone with the same
\* replies
C10_RequestsIndependent ==
  /\ \A p \in Pids :
       /\ pipes[p].pc = "processInput" =>
            /\ StateOf(p).userInput = pipes[p].input
            /\ StateOf(p).messages = <<>>
            /\ StateOf(p).identifiedIntent = JNull
            /\ StateOf(p).confidence = JNum(0)
            /\ StateOf(p).entities = JObj(EmptyMap)
            /\ StateOf(p).response = JStr(<<>>)
            /\ StateOf(p).error = JNull
       /\ pipes[p].pc = "returned" =>
            pipes[p].result = RunAlone(variant, pipes[p].input, pipes[p].outs)
  /\ \A p, q \in Pids : p # q => pipes[p].st # pipes[q].st

\* two calls in flight at the same time returned different results
C10_Witness ==
  \E r \in BatchReqs :
    /\ Len(reqs[r].pids) = 2
    /\ pipes[reqs[r].pids[1]].pc = "returned"
    /\ pipes[reqs[r].pids[2]].pc = "returned"
    /\ pipes[reqs[r].pids[1]].result.error # JNull
    /\ pipes[reqs[r].pids[2]].result.error = JNull

(***************************************************************************)
(* C11                                                                     *)
(***************************************************************************)
\* the AgentState that leaves identifyIntent in pipeline p, from the input
\* and the outcomes of the first two calls
AfterClassification(p) ==
  LET s0 == [NewAgentState(variant) EXCEPT !.userInput = pipes[p].input]
      s1 == processInput(s0, Out(p, 1)).s IN
  identifyIntent(s1, Out(p, 2)).s

\* the results built by the catch of /api/classify and by the per-message
\* catch of the batch say unknown with confidence 0
CatchResultsDefault ==
  /\ \A r \in Rids :
       reqs[r].status = 500 =>
         reqs[r].json.intent = Unknown /\ reqs[r].json.confidence = JNum(0)
  /\ \A r \in BatchReqs :
       reqs[r].status = 200 =>
         \A i \in 1..Len(reqs[r].pids) :
           pipes[reqs[r].pids[i]].pc = "rejected" =>
             /\ reqs[r].json.results[i].intent = Unknown
             /\ reqs[r].json.results[i].confidence = JNum(0)

\* C11 as claimed: in every result returned for a message, an error that is
\* not null implies intent "unknown" and confidence 0
C11_Original ==
  /\ \A p \in ReturnedPipes :
       pipes[p].result.error # JNull =>
         pipes[p].result.intent = Unknown /\ pipes[p].result.confidence = JNum(0)
  /\ CatchResultsDefault

\* C11 as amended: a result whose error comes from the classification stage
\* has intent "unknown" and confidence 0, and so have the results built by
\* the two catches of the server; a result whose error comes from another
\* stage keeps the intent and the confidence that the classification gave
C11_DegradedResults ==
  /\ \A p \in ReturnedPipes :
       pipes[p].result.error # JNull =>
         IF ClassificationThrew(p)
         THEN pipes[p].result.intent = Unknown /\ pipes[p].result.confidence = JNum(0)
         ELSE /\ Out(p, 1).throws \/ \E i \in 3..Len(pipes[p].outs) :
                   Out(p, i).throws \/ ~IsString(Out(p, i).content)
              /\ <<pipes[p].result.intent, pipes[p].result.confidence>> =
                   (LET s == AfterClassification(p) IN <<s.identifiedIntent, s.confidence>>)
  /\ CatchResultsDefault

\* an answered request whose result has an error from the response stage
\* and the intent and confidence of the classification reply
C11_Witness ==
  \E r \in ClassifyReqs :
    /\ reqs[r].status = 200
    /\ reqs[r].json.error # JNull
    /\ ResponseCallFailed(reqs[r].pids[1])
    /\ reqs[r].json.intent = JStr(<<"question">>)
    /\ reqs[r].json.confidence = JNum(90)

(***************************************************************************)
(* C12                                                                     *)
(***************************************************************************)
\* agentConfig.intentCategories
intentCategories ==
  {"greeting", "question", "command", "information_request", "clarification",
   "feedback", "goodbye", "unknown"}

\* C12: in every result returned by processMessage, whatever the model
\* replied, the intent is one of the eight configured categories
C12_IntentInCategories ==
  \A p \in ReturnedPipes :
    /\ pipes[p].result.intent.t = "str"
    /\ \E c \in intentCategories : pipes[p].result.intent.s = <<c>>

(***************************************************************************)
(* C13                                                                     *)
(***************************************************************************)
\* C13: in every result returned by processMessage, whatever the model
\* replied, the confidence is a number between 0 and 1 (0 and 100
\* hundredths), bounds included
C13_ConfidenceInRange ==
  \A p \in ReturnedPipes :
    /\ pipes[p].result.confidence.t = "num"
    /\ pipes[p].result.confidence.n >= 0
    /\ pipes[p].result.confidence.n <= 100

(***************************************************************************)
(* C14                                                                     *)
(***************************************************************************)
\* the labels of the classifiers, in the order in which they are tried
FallbackOrder ==
  <<"greeting", "question", "command", "goodbye", "clarification", "information_request">>

\* the classifier of a label matches the lower-cased input
FallbackMatches(label, lowerInput) ==
  IF label = "greeting" THEN \E w \in GreetingPrefixes : StartsWith(lowerInput, w)
  ELSE IF label = "question"
  THEN (\E w \in QuestionWords : Includes(lowerInput, w)) /\ Includes(lowerInput, <<"?">>)
  ELSE IF label = "command" THEN \E w \in CommandWords : Includes(lowerInput, w)
  ELSE IF label = "goodbye" THEN \E w \in GoodbyeWords : Includes(lowerInput, w)
  ELSE IF label = "clarification" THEN \E w \in ClarificationWords : Includes(lowerInput, w)
  ELSE \E w \in InformationWords : Includes(lowerInput, w)

FallbackHits(input) ==
  {i \in 1..Len(FallbackOrder) : FallbackMatches(FallbackOrder[i], ToLowerCase(input))}

\* the classifier ran on the input of pipeline p: text without braces came
\* back for an input that is a string
FallbackRan(p) ==
  ClassifyText(p) /\ NoBraceSpan(Out(p, 2).content.s) /\ IsString(pipes[p].input)

\* C14: for every input string classifyIntentFallback gives the label of
\* the first classifier that matches, in the order greeting, question,
\* command, goodbye, clarification, information_request, and "unknown" when
\* none matches
C14_FirstMatchWins ==
  \A p \in Pids :
    /\ IsString(pipes[p].input) =>
         /\ \A i \in FallbackHits(pipes[p].input.s) :
              (\A j \in FallbackHits(pipes[p].input.s) : i <= j) =>
                classifyIntentFallback(pipes[p].input.s) = <<FallbackOrder[i]>>
         /\ FallbackHits(pipes[p].input.s) = {} =>
              classifyIntentFallback(pipes[p].input.s) = <<"unknown">>
    /\ (FallbackRan(p) /\ pipes[p].pc = "returned") =>
         pipes[p].result.intent = JStr(classifyIntentFallback(pipes[p].input.s))

\* the classifier labelled as command an input that the command and the
\* clarification patterns both match
C14_Witness ==
  \E p \in ReturnedPipes :
    /\ FallbackRan(p)
    /\ {3, 5} \subseteq FallbackHits(pipes[p].input.s)
    /\ 1 \notin FallbackHits(pipes[p].input.s)
    /\ 2 \notin FallbackHits(pipes[p].input.s)
    /\ pipes[p].result.intent = JStr(<<"command">>)

(***************************************************************************)
(* C15                                                                     *)
(***************************************************************************)
\* the first {...} span of the reply is JSON after the clean-up
ParsedSpan(content) ==
  /\ ~NoBraceSpan(content)
  /\ JSONParse(CleanUp(FirstSpan(content).text)).ok

SpanObject(content) == JSONParse(CleanUp(FirstSpan(content).text)).v

HasKey(obj, key) == key \in DOMAIN obj.m

\* C15: when the first {...} span of the reply parses but lacks a key, the
\* field of that key takes its default (intent "unknown", confidence 0.5,
\* entities {}), whether or not the other keys are there: a key that is
\* there with a non-empty, non-zero value gives its field
C15_MissingKeyDefaults ==
  \A p \in ReturnedPipes :
    (ClassifyText(p) /\ ParsedSpan(Out(p, 2).content.s)) =>
      LET obj == SpanObject(Out(p, 2).content.s)
          res == pipes[p].result IN
      /\ ~HasKey(obj, KIntent) => res.intent = Unknown
      /\ ~HasKey(obj, KConfidence) => res.confidence = JNum(50)
      /\ ~HasKey(obj, KEntities) => res.entities = JObj(EmptyMap)
      /\ (HasKey(obj, KIntent) /\ Truthy(obj.m[KIntent])) => res.intent = obj.m[KIntent]
      /\ (HasKey(obj, KConfidence) /\ Truthy(obj.m[KConfidence])) =>
           res.confidence = obj.m[KConfidence]
      /\ (HasKey(obj, KEntities) /\ Truthy(obj.m[KEntities])) =>
           res.entities = obj.m[KEntities]

\* a parsed object with a confidence and no intent: the intent is the
\* default and the confidence is the one of the reply
C15_Witness ==
  \E p \in ReturnedPipes :
    /\ ClassifyText(p) /\ ParsedSpan(Out(p, 2).content.s)
    /\ ~HasKey(SpanObject(Out(p, 2).content.s), KIntent)
    /\ HasKey(SpanObject(Out(p, 2).content.s), KConfidence)
    /\ pipes[p].result.intent = Unknown
    /\ pipes[p].result.confidence = JNum(90)

(***************************************************************************)
(* C16                                                                     *)
(***************************************************************************)
FiveFields == {"intent", "confidence", "entities", "response", "error"}

\* what /api/classify reports for message m when the calls made for it have
\* the outcomes outs: the body of its 400 answer, or the fields of the
\* result of processMessage
SingleReport(m, outs) ==
  IF classifyRejection(m) # ""
  THEN [error |-> classifyRejection(m)]
  ELSE [f \in FiveFields |-> RunAlone(variant, m, outs)[f]]

\* C16: what /api/classify-batch reports for a message is what
\* /api/classify reports for it with the same replies, also for the values
\* that /api/classify rejects
C16_BatchAsSingle ==
  \A r \in BatchReqs :
    reqs[r].status = 200 =>
      \A i \in 1..Len(reqs[r].pids) :
        LET res == reqs[r].json.results[i]
            single == SingleReport(reqs[r].body.a[i], pipes[reqs[r].pids[i]].outs) IN
        /\ DOMAIN single \subseteq DOMAIN res
        /\ FiveFields \cap DOMAIN res \subseteq DOMAIN single
        /\ \A f \in DOMAIN single : res[f] = single[f]

(***************************************************************************)
(* C17                                                                     *)
(***************************************************************************)
\* not an array, an empty array, or more than 10 elements
BadBatch(m) == m.t # "arr" \/ Len(m.a) = 0 \/ Len(m.a) > 10

RECURSIVE SumOfSizes(_)
\* the number of messages in the accepted batches among the first n requests
SumOfSizes(n) ==
  IF n = 0 THEN 0
  ELSE SumOfSizes(n - 1) +
       (IF reqs[n].kind = "batch" /\ ~BadBatch(reqs[n].body) THEN Len(reqs[n].body.a) ELSE 0)

\* C17: /api/classify-batch answers 400 and starts no pipeline when messages
\* is not an array, is empty or has more than 10 elements; any other batch,
\* one of exactly 10 messages included, has one pipeline started for each of
\* its messages
C17_BatchValidation ==
  /\ \A r \in BatchReqs :
       IF BadBatch(reqs[r].body)
       THEN reqs[r].status = 400 /\ reqs[r].pids = <<>>
       ELSE /\ reqs[r].status # 400
            /\ Len(reqs[r].pids) = Len(reqs[r].body.a)
            /\ \A i \in 1..Len(reqs[r].pids) :
                 pipes[reqs[r].pids[i]].input = reqs[r].body.a[i]
  /\ Len(pipes) = SumOfSizes(Len(reqs))

\* a batch of exactly 10 messages was answered with 10 results and a batch
\* of 11 was refused
C17_Witness ==
  \E r1, r2 \in BatchReqs :
    /\ reqs[r1].body.t = "arr" /\ Len(reqs[r1].body.a) = 10
    /\ reqs[r1].status = 200 /\ reqs[r1].json.count = 10
    /\ reqs[r2].body.t = "arr" /\ Len(reqs[r2].body.a) = 11
    /\ reqs[r2].status = 400

(***************************************************************************)
(* C18                                                                     *)
(***************************************************************************)
\* the calls to the model that pipeline p made for a stage
CallsOf(p, stage) == {i \in 1..Len(pipes[p].calls) : pipes[p].calls[i].stage = stage}

\* C18: while a message is processed the classification stage calls the
\* model exactly once, and no call of any stage is made again after a
\* failure or an unusable reply
C18_NoRetry ==
  \A p \in Pids :
    /\ \A stage \in {"identifyIntent", "reasoning", "reply"} :
         Cardinality(CallsOf(p, stage)) <= 1
    /\ Classified(p) => Cardinality(CallsOf(p, "identifyIntent")) = 1
    /\ Len(pipes[p].calls) + 1 >= Len(pipes[p].outs)
    /\ Len(pipes[p].calls) <= Len(pipes[p].outs)

\* a run whose classification reply was malformed and whose reasoning call
\* failed made these two calls and no other
C18_Witness ==
  \E p \in ReturnedPipes :
    /\ ClassifyText(p) /\ MalformedSpan(Out(p, 2).content.s)
    /\ ResponseCallFailed(p)
    /\ CallStages(p) = <<"identifyIntent", "reasoning">>

(***************************************************************************)
(* C19                                                                     *)
(***************************************************************************)
\* the reasoning call of pipeline p replied with text
ReasoningText(p) ==
  /\ variant = "reasoning"
  /\ Len(pipes[p].outs) >= 3
  /\ ~Out(p, 3).throws
  /\ IsString(Out(p, 3).content)

ReasoningKeys == {<<"message_analysis">>, <<"intent_justification">>, <<"response_strategy">>}

\* what the reasoning text holds between its first "{" and its last "}"
ReasoningJSON(p) ==
  LET content == Trim(Out(p, 3).content.s) IN
  IF GreedySpan(content).found
  THEN JSONParse(CleanUpReasoning(GreedySpan(content).text))
  ELSE ParseFail

\* C19: whatever text the reasoning call returns, reasoning is set to an
\* object (the parsed one, or a static one with the three sections), no
\* error is set for it, the reply call is still made, and intent,
\* confidence and entities stay as the classification left them
C19_ReasoningFallback ==
  \A p \in Pids :
    ReasoningText(p) =>
      /\ "reply" \in {pipes[p].calls[i].stage : i \in 1..Len(pipes[p].calls)}
      /\ StateOf(p).reasoning.t = "obj"
      /\ StateOf(p).identifiedIntent = AfterClassification(p).identifiedIntent
      /\ StateOf(p).confidence = AfterClassification(p).confidence
      /\ StateOf(p).entities = AfterClassification(p).entities
      /\ (Len(pipes[p].outs) = 3 \/ (~Out(p, 4).throws /\ IsString(Out(p, 4).content))) =>
           /\ StateOf(p).error = AfterClassification(p).error
           /\ IF ReasoningJSON(p).ok
              THEN StateOf(p).reasoning = ReasoningJSON(p).v
              ELSE DOMAIN StateOf(p).reasoning.m = ReasoningKeys

\* a run whose reasoning text was malformed inside its braces returned
\* without error, with the static reasoning object and the reply of the model
C19_Witness ==
  \E p \in ReturnedPipes :
    /\ ReasoningText(p)
    /\ GreedySpan(Trim(Out(p, 3).content.s)).found
    /\ ~ReasoningJSON(p).ok
    /\ pipes[p].result.error = JNull
    /\ pipes[p].result.reasoning.t = "obj"
    /\ pipes[p].result.response # Apology

(***************************************************************************)
(* C20                                                                     *)
(***************************************************************************)
\* processInput ran in pipeline p and built its two messages
InputProcessed(p) == Len(pipes[p].outs) >= 1 /\ ~Out(p, 1).throws

\* C20: processInput sets messages to two entries, the system prompt and
\* then the human message that carries userInput, and leaves userInput,
\* identifiedIntent, confidence, entities, response and error as they were
\* (error null), for every input string, the empty one included
C20_ProcessInputFrame ==
  \A p \in Pids :
    /\ IsString(pipes[p].input) => (Len(pipes[p].outs) >= 1 => InputProcessed(p))
    /\ InputProcessed(p) =>
         /\ StateOf(p).messages =
              <<[role |-> "system", content |-> systemPrompt],
                [role |-> "human", content |-> pipes[p].input]>>
         /\ StateOf(p).userInput = pipes[p].input
         /\ pipes[p].pc = "identifyIntent" =>
              /\ StateOf(p).identifiedIntent = JNull
              /\ StateOf(p).confidence = JNum(0)
              /\ StateOf(p).entities = JObj(EmptyMap)
              /\ StateOf(p).response = JStr(<<>>)
              /\ StateOf(p).error = JNull

\* processInput has just run on the empty string
C20_Witness ==
  \E p \in Pids :
    /\ pipes[p].input = MsgEmpty
    /\ pipes[p].pc = "identifyIntent"
    /\ Len(StateOf(p).messages) = 2
    /\ StateOf(p).messages[2].content = MsgEmpty
    /\ StateOf(p).error = JNull

(***************************************************************************)
(* SpecChat: the chat page alone, with a backend that answers each fetch   *)
(* in any of the ways a fetch may end, in any order with the user's typing,*)
(* sending and clearing                                                    *)
(***************************************************************************)
ServerIdle == UNCHANGED <<variant, heap, pipes, reqs, anim>>

TypeMessage(text) ==
  /\ chat' = [chat EXCEPT !.messageInput = text]
  /\ ServerIdle

ClickSend ==
  /\ Len(chat.sends) < MaxSends
  /\ chat' = clickSend(chat)
  /\ ServerIdle

PressEnter ==
  /\ Len(chat.sends) < MaxSends
  /\ chat' = handleSendMessage(chat)
  /\ ServerIdle

ClickClear ==
  /\ chat' = clearChat(chat)
  /\ ServerIdle

CheckConnectionSettle(o) ==
  /\ chat.health = "awaiting"
  /\ chat' = checkConnectionSettled(chat, o)
  /\ ServerIdle

ClassifySettle(i, o) ==
  /\ i \in DOMAIN chat.sends
  /\ chat.sends[i] = "awaiting"
  /\ chat' = handleSendMessageSettled(chat, i, o)
  /\ ServerIdle

NextChat ==
  \/ \E text \in ChatTexts : TypeMessage(text)
  \/ ClickSend
  \/ PressEnter
  \/ ClickClear
  \/ \E o \in FetchOutcomes : CheckConnectionSettle(o)
  \/ \E i \in 1..MaxSends : \E o \in FetchOutcomes : ClassifySettle(i, o)

SpecChat == Init /\ [][NextChat]_vars

\* every fetch settles
SpecChatFair ==
  SpecChat /\ WF_vars(\E i \in 1..MaxSends : \E o \in FetchOutcomes : ClassifySettle(i, o))

InFlight == {i \in DOMAIN chat.sends : chat.sends[i] = "awaiting"}

Typed(text) == [chat EXCEPT !.messageInput = text]

\* C21: at most one classification request is in flight, and while
\* state.isProcessing is true the send button is disabled and a send
\* attempt, by click or by Enter, whatever the input box holds, leaves the
\* page as it is: no request, no chat message, no change of messageCount
C21_OneRequestInFlight ==
  /\ Cardinality(InFlight) <= 1
  /\ chat.isProcessing =>
       /\ chat.sendBtnDisabled
       /\ \A text \in ChatTexts :
            /\ handleSendMessage(Typed(text)) = Typed(text)
            /\ clickSend(Typed(text)) = Typed(text)

\* a message is typed while the request of the one before is in flight
C21_Witness ==
  /\ chat.isProcessing
  /\ Cardinality(InFlight) = 1
  /\ Trim(chat.messageInput) # <<>>
  /\ chat.messageCount = 1

\* C22: when every fetch settles, every accepted send is followed by
\* state.isProcessing = false and an enabled send button, whether the call
\* resolved, came back with another status, or was rejected
C22_SendSettles ==
  chat.isProcessing ~> (~chat.isProcessing /\ ~chat.sendBtnDisabled)

\* a send whose call failed has been settled
C22_Witness ==
  /\ chat.sends # <<>>
  /\ InFlight = {}
  /\ chat.lastExchange = "failed"
  /\ ~chat.isProcessing
  /\ ~chat.sendBtnDisabled

\* what clearChat leaves: no message counted, no last intent, the
\* placeholder in the intent panel, the system message alone in the chat
ChatCleared ==
  /\ chat.messageCount = 0
  /\ chat.lastIntent = "null"
  /\ chat.intentDisplay = "placeholder"
  /\ chat.chatMessages = <<"system">>

\* C23: from a click on Clear Chat until the user sends the next message,
\* messageCount is 0, lastIntent is null, the intent panel shows its
\* placeholder and the chat holds the system message only, also when a
\* classification request was in flight at the click
C23_ClearStaysCleared == chat.sinceClear => ChatCleared

\* C24: the connection indicator shows how the most recent backend
\* exchange, health check or classification, ended
C24_IndicatorFollowsExchange ==
  /\ chat.lastExchange = "succeeded" => chat.statusDot = "connected"
  /\ chat.lastExchange = "failed" => chat.statusDot = "disconnected"

(***************************************************************************)
(* SpecAnim: the animator alone, from onAllModelsLoaded on.  The user      *)
(* clicks the model, presses the send button, stops or disposes the        *)
(* animator; the three timers fire in any order                            *)
(***************************************************************************)
PageIdle == UNCHANGED <<variant, heap, pipes, reqs, chat>>

\* a user event: counting starts again
UserEvent(a) == [a EXCEPT !.since = "event", !.stopped = FALSE, !.idleFrames = 0]

ModelClick ==
  /\ anim' = onModelClick(UserEvent(anim))
  /\ PageIdle

SendButtonClick ==
  /\ anim' = playThinkingAnimation(UserEvent(anim))
  /\ PageIdle

StopAnimation ==
  /\ anim' = [stopAnimation(UserEvent(anim)) EXCEPT !.stopped = TRUE]
  /\ PageIdle

Dispose ==
  /\ anim' = [dispose(UserEvent(anim)) EXCEPT !.stopped = TRUE]
  /\ PageIdle

AnimationTimeoutFires ==
  /\ anim.animationTimeout # "null"
  /\ anim' = IF anim.animationTimeout = "playNextFrame"
             THEN playNextFrame(anim) ELSE onAnimationComplete(anim)
  /\ PageIdle

HeartTimeoutFires ==
  /\ anim.heartAnimationTimeout # "null"
  /\ anim' = playHeartFrames(anim)
  /\ PageIdle

ThinkingTimeoutFires ==
  /\ anim.thinkingAnimationTimeout # "null"
  /\ anim' = playThinkingFrames(anim)
  /\ PageIdle

NextAnim ==
  \/ ModelClick
  \/ SendButtonClick
  \/ StopAnimation
  \/ Dispose
  \/ AnimationTimeoutFires
  \/ HeartTimeoutFires
  \/ ThinkingTimeoutFires

SpecAnim == Init /\ [][NextAnim]_vars

\* every scheduled timer fires
SpecAnimFair ==
  /\ SpecAnim
  /\ WF_vars(AnimationTimeoutFires)
  /\ WF_vars(HeartTimeoutFires)
  /\ WF_vars(ThinkingTimeoutFires)

PendingTimers ==
  {t \in {"animationTimeout", "heartAnimationTimeout", "thinkingAnimationTimeout"} :
     anim[t] # "null"}

\* C25: at most one of animationTimeout, heartAnimationTimeout and
\* thinkingAnimationTimeout is pending at any time, and
\* heartAnimationPlaying and thinkingAnimationPlaying are never both true
C25_OneTimerPending ==
  /\ Cardinality(PendingTimers) <= 1
  /\ ~(anim.heartAnimationPlaying /\ anim.thinkingAnimationPlaying)

\* C26: from a call of stopAnimation (or dispose) until the user's next
\* call or event, whichever timer callback was pending at the call, no
\* frame is shown, the model is not switched and animationState does not
\* change
C26_StoppedStaysStill ==
  [][(anim.stopped /\ anim'.stopped) =>
       /\ anim'.visibleFrame = anim.visibleFrame
       /\ anim'.currentModelName = anim.currentModelName
       /\ anim'.animationState = anim.animationState]_vars

Quiet == anim.since = "load"

\* C27: with no click and no press of the send button, animationState goes
\* from wave, whose frames are shown once in their order, to idle and from
\* idle to sleeping, and makes no other move; when the timers fire it
\* reaches sleeping and stays there for ever, the sleeping frames being
\* played again and again
C27_WaveIdleSleeping ==
  /\ [][Quiet' =>
         /\ \/ anim'.animationState = anim.animationState
            \/ anim.animationState = "wave" /\ anim'.animationState = "idle"
               /\ anim.visibleFrame = WaveFrames - 1
            \/ anim.animationState = "idle" /\ anim'.animationState = "sleeping"
         /\ (anim.animationState = "wave" /\ anim'.animationState = "wave")
              => anim'.visibleFrame = anim.visibleFrame + 1]_vars
  /\ []Quiet => /\ <>[](anim.animationState = "sleeping"
                        /\ anim.currentModelName = "sleeping")
                /\ []<>(anim.animationTimeout = "onAnimationComplete")
                /\ []<>(anim.animationTimeout = "playNextFrame")

\* no click, no press, and the sleeping frames are in their third pass
C27_Witness ==
  /\ Quiet
  /\ anim.animationState = "sleeping"
  /\ anim.sleepingLoopCount = 2
  /\ anim.visibleFrame = 3

\* C28: with no click and no press of the send button, the idle animation
\* that follows wave is played maxIdleLoops times in full before the
\* animator switches to sleeping
C28_FiveIdleCycles ==
  [][(Quiet' /\ anim.animationState = "idle" /\ anim'.animationState = "sleeping")
       => anim.idleFrames = maxIdleLoops * FrameCount("idle")]_vars

AfterHeart == anim.since = "heart"

\* C29: when a heart animation has completed, whatever it interrupted, the
\* animator is in idle and, if no click and no press of the send button
\* comes in between, it shows the idle frames exactly once and then
\* switches to sleeping
C29_OneIdleCycleAfterHeart ==
  [][(AfterHeart /\ AfterHeart') =>
       /\ anim.animationState \in {"idle", "sleeping"}
       /\ (anim.animationState = "idle" /\ anim'.animationState = "sleeping")
            => anim.idleFrames = FrameCount("idle")
       /\ anim.animationState = "sleeping" => anim'.animationState = "sleeping"]_vars

ReasoningSettled(p) == variant = "reasoning" /\ Len(pipes[p].outs) >= 3

\* C31: with the reasoning variant, when the reasoning call throws the reply
\* call is never made for that message, and the response is the apology
\* with the error set, also when the classification succeeded; the reply
\* call is made exactly when the reasoning call returned
C31_ReasoningGatesReply ==
  variant = "reasoning" =>
    \A p \in Pids :
      /\ (ReasoningSettled(p) /\ Out(p, 3).throws) =>
           /\ CallsOf(p, "reply") = {}
           /\ pipes[p].pc \in {"END", "returned"}
           /\ StateOf(p).response = Apology
           /\ StateOf(p).error = ErrorText("Error generating response: ", Out(p, 3).msg)
           /\ pipes[p].pc = "returned" =>
                /\ pipes[p].result.response = Apology
                /\ pipes[p].result.error # JNull
      /\ (CallsOf(p, "reply") # {}) <=> (ReasoningSettled(p) /\ ~Out(p, 3).throws)
      /\ Cardinality(CallsOf(p, "reply")) <= 1

\* the classification succeeded, the reasoning call threw, and the run
\* ended after these two calls with the apology
C31_Witness ==
  /\ variant = "reasoning"
  /\ \E p \in ReturnedPipes :
       /\ ClassifyText(p) /\ ~ClassificationThrew(p)
       /\ pipes[p].result.intent # Unknown
       /\ Out(p, 3).throws
       /\ CallStages(p) = <<"identifyIntent", "reasoning">>
       /\ pipes[p].result.response = Apology

(***************************************************************************)
(* C32                                                                     *)
(***************************************************************************)
\* something threw inside the try block of generateResponse: one of its
\* calls, or, with the reasoning variant, trim on a reply that is no string
ResponseThrew(p) ==
  \/ ResponseCallFailed(p)
  \/ /\ variant = "reasoning"
     /\ Len(pipes[p].outs) >= 4
     /\ ~IsString(Out(p, 4).content)

\* the stage whose catch wrote the error text e
ErrorStage(e) ==
  IF e = JNull THEN "none"
  ELSE IF e.s[1] = "Error processing input: " THEN "processInput"
  ELSE IF e.s[1] = "Error identifying intent: " THEN "identifyIntent"
  ELSE IF e.s[1] = "Error generating response: " THEN "generateResponse"
  ELSE "other"

\* the last stage of pipeline p that failed
LastFailedStage(p) ==
  IF ResponseThrew(p) THEN "generateResponse"
  ELSE IF ClassificationThrew(p) THEN "identifyIntent"
  ELSE IF Out(p, 1).throws THEN "processInput"
  ELSE "none"

\* C32: a failure of the classification stage does not stop the pipeline:
\* the response stage is run and makes its call to the model; and the
\* error of the final result is the text of the last stage that failed,
\* an earlier text being overwritten and no text being cleared by a later
\* stage that succeeded
C32_LastErrorWins ==
  \A p \in Pids :
    /\ ClassificationThrew(p) =>
         /\ pipes[p].pc \in {"generateResponse", "awaitReasoning", "awaitReply",
                             "END", "returned"}
         /\ pipes[p].pc \in {"END", "returned"} =>
              /\ pipes[p].trace[Len(pipes[p].trace)] \in {"generateResponse", "END"}
              /\ CallsOf(p, IF variant = "reasoning" THEN "reasoning" ELSE "reply") # {}
    /\ pipes[p].pc = "returned" =>
         /\ ErrorStage(pipes[p].result.error) = LastFailedStage(p)
         /\ (ClassifyCallFailed(p) /\ ~ResponseThrew(p)) =>
              pipes[p].result.error =
                ErrorText("Error identifying intent: ", Out(p, 2).msg)
         /\ ResponseCallFailed(p) =>
              pipes[p].result.error =
                ErrorText("Error generating response: ",
                          Out(p, Len(pipes[p].outs)).msg)

\* the classification call and then a call of the response stage failed:
\* the result carries the text of the response stage
C32_Witness ==
  \E p \in ReturnedPipes :
    /\ ClassifyCallFailed(p)
    /\ ResponseCallFailed(p)
    /\ Len(pipes[p].calls) >= 2
    /\ ErrorStage(pipes[p].result.error) = "generateResponse"

(***************************************************************************)
(* C33                                                                     *)
(***************************************************************************)
\* C33: transitionToSleepingAfterIdle is true only while the idle animation
\* that follows a completed heart animation plays, and whenever a thinking
\* animation completes and restoreAfterThinking starts idle the flag is
\* false
C33_FlagOnlyAfterHeart ==
  [][/\ anim'.transitionToSleepingAfterIdle =>
          (anim'.animationState = "idle" /\ anim'.currentModelName = "idle")
     /\ (anim.thinkingAnimationPlaying /\ ~anim'.thinkingAnimationPlaying) =>
          ~anim'.transitionToSleepingAfterIdle]_vars

(***************************************************************************)
(* C34                                                                     *)
(***************************************************************************)
\* C34: sendButtonPressed is false in every reachable state; a pass of the
\* sleeping animation that ends in onAnimationComplete leaves the animator in
\* sleeping, and animationState leaves sleeping only in a step of the heart
\* animation (started by a click on the model) or of the thinking animation
\* (started by a send-button press)
C34_SleepingLeftByClickOrPress ==
  /\ [](~anim.sendButtonPressed)
  /\ [][/\ (AnimationTimeoutFires /\ anim.animationState = "sleeping") =>
             (anim'.animationState = "sleeping" /\
              anim'.currentModelName = anim.currentModelName)
        /\ (anim.animationState = "sleeping" /\ anim'.animationState # "sleeping") =>
             \/ anim.heartAnimationPlaying /\ ~anim'.heartAnimationPlaying
             \/ anim.thinkingAnimationPlaying /\ ~anim'.thinkingAnimationPlaying
        /\ (anim.currentModelName = "sleeping" /\ anim'.currentModelName # "sleeping") =>
             \/ anim'.heartAnimationPlaying /\ anim'.currentModelName = "heart"
             \/ anim'.thinkingAnimationPlaying /\ anim'.currentModelName = "thinking"
             \/ anim.heartAnimationPlaying /\ ~anim'.heartAnimationPlaying
             \/ anim.thinkingAnimationPlaying /\ ~anim'.thinkingAnimationPlaying]_vars

\* the sleeping animation has completed passes and is still playing
C34_Witness ==
  /\ anim.animationState = "sleeping"
  /\ anim.currentModelName = "sleeping"
  /\ anim.sleepingLoopCount >= 2
  /\ ~anim.sendButtonPressed

====
